---- MODULE Spec2Model ----
(***************************************************************************)
(* Aqua-Mind ESP32 firmware (final revision, aquamind_esp32.ino lines       *)
(* 880-1977): Tri-Check burst sampling, the Jal-Score, the verdict and the  *)
(* critical-parameter override of analyzeWater.                             *)
(*                                                                          *)
(* Numbers.  Every C float is a fixed-point integer in thousandths of its   *)
(* unit (milli-ppm, milli-pH, milli-NTU, milli-mg/L, milli-percent,         *)
(* milli-points); a value stored into a float is rounded to the nearest     *)
(* thousandth (RoundDiv).  IEEE-754 rounding below that resolution is not   *)
(* modelled.  jal_score and the verdict thresholds are plain integers.      *)
(***************************************************************************)
EXTENDS Integers, Sequences, FiniteSets

(***************************************************************************)
(* Program constants                                                        *)
(***************************************************************************)
BURSTS == 3
SAMPLES_PER_BURST == 5

\* #define PH_SAFE_MIN 6.5, PH_SAFE_MAX 8.5 (milli-pH)
PH_SAFE_MIN == 6500
PH_SAFE_MAX == 8500
\* "perfect at 7.25" inside calculateJalScore (milli-pH)
PH_OPTIMAL == 7250

\* weights, in percent (0.30, 0.25, 0.15, 0.15, 0.15)
WEIGHT_TDS == 30
WEIGHT_PH == 25
WEIGHT_DO == 15
WEIGHT_TURBIDITY == 15
WEIGHT_STABILITY == 15

\* triCheck: *stability = max(50.0f, 100.0f - cv * 5.0f) (milli-percent)
STABILITY_FLOOR == 50000
STABILITY_SLOPE == 5

\* analyzeWater: absolute danger limits and the score cap of the override
PH_DANGER_LOW == 4000
PH_DANGER_HIGH == 10000
TDS_DANGER_ABS == 800000
TURBIDITY_DANGER_ABS == 8000
STABILITY_ALERT_BELOW == 40000
OVERRIDE_SCORE_CAP == 30

\* globals' initial values (milli-units)
MOCK_TURBIDITY_NTU == 2500
MOCK_TEMPERATURE_C == 25000
MOCK_DO_MGL == 7500

PROFILE_COUNT == 6

\* const GeoProfile PROFILES[]: lat, lon in hundredths of a degree, tds_* in
\* ppm (int), turb_* in milli-NTU
PROFILES ==
    << [name |-> "Jabalpur", lat |-> 2318, lon |-> 7998,
        tds_safe |-> 300, tds_danger |-> 900,
        turb_safe |-> 1000, turb_danger |-> 10000],
       [name |-> "Jaipur", lat |-> 2691, lon |-> 7578,
        tds_safe |-> 400, tds_danger |-> 1200,
        turb_safe |-> 2000, turb_danger |-> 10000],
       [name |-> "Chennai", lat |-> 1308, lon |-> 8027,
        tds_safe |-> 500, tds_danger |-> 1500,
        turb_safe |-> 1000, turb_danger |-> 10000],
       [name |-> "Delhi", lat |-> 2861, lon |-> 7720,
        tds_safe |-> 300, tds_danger |-> 800,
        turb_safe |-> 1000, turb_danger |-> 8000],
       [name |-> "Mumbai", lat |-> 1907, lon |-> 7287,
        tds_safe |-> 400, tds_danger |-> 1000,
        turb_safe |-> 1000, turb_danger |-> 10000],
       [name |-> "Guwahati", lat |-> 2614, lon |-> 9173,
        tds_safe |-> 200, tds_danger |-> 700,
        turb_safe |-> 1000, turb_danger |-> 8000] >>

\* PROFILES[i] of the C array (0-based index)
Profile(i) == PROFILES[i + 1]

VERDICTS == {"SAFE", "ACCEPTABLE", "CAUTION", "UNSAFE"}

(***************************************************************************)
(* Arithmetic helpers                                                       *)
(***************************************************************************)
Min(a, b) == IF a < b THEN a ELSE b
Max(a, b) == IF a < b THEN b ELSE a
Abs(x) == IF x > 0 THEN x ELSE 0 - x

\* n / d rounded to the nearest integer (d > 0): a float store
RoundDiv(n, d) == (2 * n + d) \div (2 * d)

\* constrain(x, lo, hi)
Constrain(x, lo, hi) == IF x < lo THEN lo ELSE IF x > hi THEN hi ELSE x

\* (int) f for a float f held in thousandths: truncation toward zero
ToInt(f) == IF f >= 0 THEN f \div 1000 ELSE 0 - ((0 - f) \div 1000)

RECURSIVE SqrtSearch(_, _, _)
\* the largest r in lo..hi with r * r <= v (lo * lo <= v)
SqrtSearch(v, lo, hi) ==
    IF lo >= hi THEN lo
    ELSE LET mid == (lo + hi + 1) \div 2
         IN  IF mid * mid <= v THEN SqrtSearch(v, mid, hi)
             ELSE SqrtSearch(v, lo, mid - 1)

\* sqrt(v), rounded to the nearest integer (0 <= v < 2^31)
Sqrt(v) ==
    LET r == SqrtSearch(v, 0, 46340)
    IN  IF v - r * r > r THEN r + 1 ELSE r

(***************************************************************************)
(* triCheck (lines 1275-1325) on the 15 readings the sensor returned        *)
(***************************************************************************)
RECURSIVE SumFrom(_, _, _)
\* s[from] + ... + s[to]
SumFrom(s, from, to) ==
    IF from > to THEN 0 ELSE s[from] + SumFrom(s, from + 1, to)

\* burstMeans[burst] = burstSum / SAMPLES_PER_BURST (burst is 0-based)
BurstMean(readings, burst) ==
    RoundDiv(SumFrom(readings, burst * SAMPLES_PER_BURST + 1,
                     (burst + 1) * SAMPLES_PER_BURST), SAMPLES_PER_BURST)

\* a plausible slip: the mean of the last burst returned as the mean
MeanOfLastBurst(readings) ==
    RoundDiv(SumFrom(readings, Len(readings) - SAMPLES_PER_BURST + 1,
                     Len(readings)), SAMPLES_PER_BURST)

\* mean = totalSum / readingIndex
MeanOf(readings) == RoundDiv(SumFrom(readings, 1, Len(readings)), Len(readings))

RECURSIVE SumSqDiff(_, _, _)
SumSqDiff(readings, mean, i) ==
    IF i > Len(readings) THEN 0
    ELSE (readings[i] - mean) * (readings[i] - mean)
         + SumSqDiff(readings, mean, i + 1)

\* variance /= readingIndex (thousandths squared)
VarianceOf(readings) ==
    RoundDiv(SumSqDiff(readings, MeanOf(readings), 1), Len(readings))

StdDevOf(readings) == Sqrt(VarianceOf(readings))

\* a plausible slip: only the division by zero is guarded (mean != 0)
CoefficientOfVariationNonZero(readings) ==
    IF MeanOf(readings) # 0
    THEN RoundDiv(StdDevOf(readings) * 100000, MeanOf(readings))
    ELSE 0

\* cv = (mean > 0) ? (stdDev / mean) * 100.0 : 0      (milli-percent)
CoefficientOfVariation(readings) ==
    IF MeanOf(readings) > 0
    THEN RoundDiv(StdDevOf(readings) * 100000, MeanOf(readings))
    ELSE 0

\* a plausible slip: min() written for max()
StabilityFromCVMin(cv) == Min(STABILITY_FLOOR, 100000 - cv * STABILITY_SLOPE)

\* *stability = max(50.0f, 100.0f - cv * 5.0f)
StabilityFromCV(cv) == Max(STABILITY_FLOOR, 100000 - cv * STABILITY_SLOPE)

\* triCheck's two results: the returned mean and *stability
triCheck(readings) ==
    [mean |-> MeanOf(readings),
     stability |-> StabilityFromCV(CoefficientOfVariation(readings))]

(***************************************************************************)
(* calculateJalScore (lines 1335-1422); sub-scores in milli-points          *)
(***************************************************************************)
\* a plausible slip: the interpolation without its "100 -"
TdsScoreRising(tds, p) ==
    LET tdsSafe == Profile(p).tds_safe
        tdsDanger == Profile(p).tds_danger
    IN  IF tds <= tdsSafe * 1000 THEN 100000
        ELSE IF tds >= tdsDanger * 1000 THEN 0
        ELSE RoundDiv((tds - tdsSafe * 1000) * 100, tdsDanger - tdsSafe)

\* TDS score against the active profile's thresholds
TdsScore(tds, p) ==
    LET tdsSafe == Profile(p).tds_safe
        tdsDanger == Profile(p).tds_danger
    IN  IF tds <= tdsSafe * 1000 THEN 100000
        ELSE IF tds >= tdsDanger * 1000 THEN 0
        ELSE 100000 - RoundDiv((tds - tdsSafe * 1000) * 100, tdsDanger - tdsSafe)

\* a plausible slip: the penalty outside the safe band added
PhScoreRising(ph) ==
    IF ph >= PH_SAFE_MIN /\ ph <= PH_SAFE_MAX
    THEN 100000 - Abs(ph - PH_OPTIMAL) * 15
    ELSE IF ph < PH_SAFE_MIN
    THEN Max(0, 50000 + (PH_SAFE_MIN - ph) * 25)
    ELSE Max(0, 50000 + (ph - PH_SAFE_MAX) * 25)

\* pH score
PhScore(ph) ==
    IF ph >= PH_SAFE_MIN /\ ph <= PH_SAFE_MAX
    THEN 100000 - Abs(ph - PH_OPTIMAL) * 15
    ELSE IF ph < PH_SAFE_MIN
    THEN Max(0, 50000 - (PH_SAFE_MIN - ph) * 25)
    ELSE Max(0, 50000 - (ph - PH_SAFE_MAX) * 25)

\* dissolved-oxygen score, by bands
DoScore(doLevel) ==
    IF doLevel >= 6000 /\ doLevel <= 9000 THEN 100000
    ELSE IF doLevel >= 5000 /\ doLevel < 6000 THEN 80000
    ELSE IF doLevel > 9000 /\ doLevel <= 12000 THEN 90000
    ELSE IF doLevel < 5000 THEN Max(0, 50000 - (5000 - doLevel) * 20)
    ELSE 70000

\* turbidity score against the active profile's thresholds
TurbScore(turbidity, p) ==
    LET turbSafe == Profile(p).turb_safe
        turbDanger == Profile(p).turb_danger
    IN  IF turbidity <= turbSafe THEN 100000
        ELSE IF turbidity >= turbDanger THEN 0
        ELSE 100000 - RoundDiv((turbidity - turbSafe) * 100000,
                               turbDanger - turbSafe)

\* a plausible slip: the stability term left out of the sum
WeightedSumNoStability(tds, ph, turbidity, doLevel, stability, p) ==
    RoundDiv(TdsScore(tds, p) * WEIGHT_TDS
             + PhScore(ph) * WEIGHT_PH
             + DoScore(doLevel) * WEIGHT_DO
             + TurbScore(turbidity, p) * WEIGHT_TURBIDITY, 100)

\* float jalScore = tdsScore * WEIGHT_TDS + ... + stability * WEIGHT_STABILITY
WeightedSum(tds, ph, turbidity, doLevel, stability, p) ==
    RoundDiv(TdsScore(tds, p) * WEIGHT_TDS
             + PhScore(ph) * WEIGHT_PH
             + DoScore(doLevel) * WEIGHT_DO
             + TurbScore(turbidity, p) * WEIGHT_TURBIDITY
             + stability * WEIGHT_STABILITY, 100)

\* a plausible slip: the comparisons turned round
StabilityPenaltyInverted(stability) ==
    IF stability > 50000 THEN 8
    ELSE IF stability > 70000 THEN 9
    ELSE 10

\* a plausible slip: <= written for <
StabilityPenaltyInclusive(stability) ==
    IF stability <= 50000 THEN 8
    ELSE IF stability <= 70000 THEN 9
    ELSE 10

\* the factor, in tenths, of the graduated stability penalty
StabilityPenalty(stability) ==
    IF stability < 50000 THEN 8
    ELSE IF stability < 70000 THEN 9
    ELSE 10

\* return constrain((int) jalScore, 0, 100)
calculateJalScore(tds, ph, turbidity, doLevel, stability, p) ==
    LET jalScore == WeightedSum(tds, ph, turbidity, doLevel, stability, p)
        penalised == RoundDiv(jalScore * StabilityPenalty(stability), 10)
    IN  Constrain(ToInt(penalised), 0, 100)

\* a plausible slip: > written for >=
getVerdictStrict(score) ==
    IF score > 80 THEN "SAFE"
    ELSE IF score > 60 THEN "ACCEPTABLE"
    ELSE IF score > 40 THEN "CAUTION"
    ELSE "UNSAFE"

\* getVerdict (lines 1427-1432)
getVerdict(score) ==
    IF score >= 80 THEN "SAFE"
    ELSE IF score >= 60 THEN "ACCEPTABLE"
    ELSE IF score >= 40 THEN "CAUTION"
    ELSE "UNSAFE"

(***************************************************************************)
(* analyzeWater's critical-parameter override (lines 1489-1509)             *)
(***************************************************************************)
ALERT_PH == "CRITICAL: pH is DANGEROUS!"
ALERT_TDS == "CRITICAL: TDS ppm is DANGEROUS!"
ALERT_TURBIDITY == "CRITICAL: Turbidity NTU is DANGEROUS!"
ALERT_STABILITY == "WARNING: Sensor readings unstable! Clean probes."

\* the four if-statements, in the order the code evaluates them
OVERRIDE_RULES == <<"ph", "tds", "turbidity", "stability">>

\* a plausible slip: the turbidity rule taken to include its limit
RuleMatchesTurbidityAtLimit(rule, r) ==
    CASE rule = "ph" -> r.ph < PH_DANGER_LOW \/ r.ph > PH_DANGER_HIGH
      [] rule = "tds" -> r.tds > TDS_DANGER_ABS
      [] rule = "turbidity" -> r.turbidity >= TURBIDITY_DANGER_ABS
      [] rule = "stability" -> r.stability < STABILITY_ALERT_BELOW

\* a plausible slip: the turbidity rule tests the profile-independent limit
\* with the wrong sign of comparison
RuleMatchesTurbidityBelow(rule, r) ==
    CASE rule = "ph" -> r.ph < PH_DANGER_LOW \/ r.ph > PH_DANGER_HIGH
      [] rule = "tds" -> r.tds > TDS_DANGER_ABS
      [] rule = "turbidity" -> r.turbidity < TURBIDITY_DANGER_ABS
      [] rule = "stability" -> r.stability < STABILITY_ALERT_BELOW

\* the condition of each if-statement; r is the record of the cycle's readings
RuleMatches(rule, r) ==
    CASE rule = "ph" -> r.ph < PH_DANGER_LOW \/ r.ph > PH_DANGER_HIGH
      [] rule = "tds" -> r.tds > TDS_DANGER_ABS
      [] rule = "turbidity" -> r.turbidity > TURBIDITY_DANGER_ABS
      [] rule = "stability" -> r.stability < STABILITY_ALERT_BELOW

\* a plausible slip: the cap subtracted instead of applied as a ceiling
CapScoreSubtract(score) == score - OVERRIDE_SCORE_CAP

\* a plausible slip: the score set to the cap
CapScoreAssign(score) == OVERRIDE_SCORE_CAP

\* lastJalScore = min(lastJalScore, 30)
CapScore(score) == Min(score, OVERRIDE_SCORE_CAP)

\* a plausible slip: every verdict pushed one level down
LowStabilityVerdictOneLevel(verdict) ==
    CASE verdict = "SAFE" -> "ACCEPTABLE"
      [] verdict = "ACCEPTABLE" -> "CAUTION"
      [] verdict = "CAUTION" -> "UNSAFE"
      [] OTHER -> verdict

\* if (lastVerdict == "SAFE") lastVerdict = "CAUTION"
LowStabilityVerdict(verdict) ==
    IF verdict = "SAFE" THEN "CAUTION" ELSE verdict

\* the body of one if-statement; st = [score, verdict, alert]
RuleEffect(rule, st) ==
    CASE rule = "ph" ->
           [score |-> CapScore(st.score), verdict |-> "UNSAFE", alert |-> ALERT_PH]
      [] rule = "tds" ->
           [score |-> CapScore(st.score), verdict |-> "UNSAFE", alert |-> ALERT_TDS]
      [] rule = "turbidity" ->
           [score |-> CapScore(st.score), verdict |-> "UNSAFE",
            alert |-> ALERT_TURBIDITY]
      [] rule = "stability" ->
           [score |-> st.score, verdict |-> LowStabilityVerdict(st.verdict),
            alert |-> ALERT_STABILITY]

\* one if-statement
ApplyRule(rule, st, r) == IF RuleMatches(rule, r) THEN RuleEffect(rule, st) ELSE st

RECURSIVE ApplyRules(_, _, _)
\* the if-statements of `rules`, one after the other
ApplyRules(rules, st, r) ==
    IF rules = <<>> THEN st
    ELSE ApplyRules(Tail(rules), ApplyRule(Head(rules), st, r), r)

\* lines 1489-1509: String criticalAlert = ""; then the four rules
CriticalOverride(score, verdict, r) ==
    ApplyRules(OVERRIDE_RULES, [score |-> score, verdict |-> verdict, alert |-> ""], r)

(***************************************************************************)
(* Strings, held as sequences of one-character strings                      *)
(***************************************************************************)
\* String::substring(from): the characters from the 0-based index on
Substring(str, from) ==
    IF from >= Len(str) THEN <<>> ELSE SubSeq(str, from + 1, Len(str))

\* String::substring(from, to): the characters at 0-based from .. to - 1
SubstringTo(str, from, to) == SubSeq(str, from + 1, to)

\* indexOf counting positions from 1, with 0 for none
IndexOfOneBased(str, ch) ==
    IF \E i \in 1..Len(str) : str[i] = ch
    THEN CHOOSE i \in 1..Len(str) :
             str[i] = ch /\ \A j \in 1..(i - 1) : str[j] # ch
    ELSE 0

\* String::indexOf(ch): the 0-based index of the first ch, -1 if there is none
IndexOf(str, ch) ==
    IF \E i \in 1..Len(str) : str[i] = ch
    THEN (CHOOSE i \in 1..Len(str) :
              str[i] = ch /\ \A j \in 1..(i - 1) : str[j] # ch) - 1
    ELSE 0 - 1

\* String::startsWith(prefix)
StartsWith(str, prefix) ==
    Len(str) >= Len(prefix) /\ SubSeq(str, 1, Len(prefix)) = prefix

\* whether sub occurs in str as a run of consecutive characters
Contains(str, sub) ==
    \E i \in 1..(Len(str) - Len(sub) + 1) :
        SubSeq(str, i, i + Len(sub) - 1) = sub

\* String(n) for a length n < 10
DigitString(n) ==
    << CASE n = 0 -> "0" [] n = 1 -> "1" [] n = 2 -> "2" [] n = 3 -> "3"
         [] n = 4 -> "4" [] n = 5 -> "5" [] n = 6 -> "6" [] n = 7 -> "7"
         [] n = 8 -> "8" [] OTHER -> "9" >>

CMD_ANALYZE == <<"A", "N", "A", "L", "Y", "Z", "E">>
CMD_STATUS == <<"S", "T", "A", "T", "U", "S">>
WIFI_PREFIX == <<"W", "I", "F", "I", ":">>

(***************************************************************************)
(* haversineDistance (lines 1720-1729) and matchClosestProfile (1734-1748)  *)
(* Angles in 1e-4 rad, coordinates in hundredths of a degree.                *)
(***************************************************************************)
\* x * PI / 180.0
Radians(cdeg) == RoundDiv(cdeg * 17453, 10000)

\* sin(h) for a half-difference h of two coordinates, |h| < 0.3 rad
SinSmall(h) == h - RoundDiv(RoundDiv(h * h, 10000) * h, 60000)

\* cos(x) for a latitude x, in 1e-4
CosLat(x) ==
    LET q == RoundDiv(x * x, 10000)
    IN  10000 - RoundDiv(q, 2) + RoundDiv(q * q, 240000)

\* 2 * atan2(sqrt(a), sqrt(1 - a)), a in 1e-6, the result in 1e-4 rad
CentralAngle(a) ==
    LET r == Sqrt(a * 100)
    IN  2 * (r + RoundDiv(RoundDiv(r * r, 10000) * r, 60000))

\* the distance in km between two points
haversineDistance(lat1, lon1, lat2, lon2) ==
    LET sLat == SinSmall(RoundDiv(Radians(lat2 - lat1), 2))
        sLon == SinSmall(RoundDiv(Radians(lon2 - lon1), 2))
        cc == RoundDiv(CosLat(Radians(lat1)) * CosLat(Radians(lat2)), 10000)
        a == RoundDiv(sLat * sLat, 100)
               + RoundDiv(cc * RoundDiv(sLon * sLon, 100), 10000)
    IN  RoundDiv(6371 * CentralAngle(a), 10000)

RECURSIVE ClosestFromLast(_, _, _, _, _)
\* a plausible slip: <= written for <, so that the last of several equally
\* close profiles wins
ClosestFromLast(i, lat, lon, minDistance, closest) ==
    IF i >= PROFILE_COUNT THEN closest
    ELSE LET dist == haversineDistance(lat, lon, Profile(i).lat, Profile(i).lon)
         IN  IF dist <= minDistance
             THEN ClosestFromLast(i + 1, lat, lon, dist, i)
             ELSE ClosestFromLast(i + 1, lat, lon, minDistance, closest)

RECURSIVE ClosestFrom(_, _, _, _, _)
\* the loop of matchClosestProfile from index i on
ClosestFrom(i, lat, lon, minDistance, closest) ==
    IF i >= PROFILE_COUNT THEN closest
    ELSE LET dist == haversineDistance(lat, lon, Profile(i).lat, Profile(i).lon)
         IN  IF dist < minDistance
             THEN ClosestFrom(i + 1, lat, lon, dist, i)
             ELSE ClosestFrom(i + 1, lat, lon, minDistance, closest)

\* the index matchClosestProfile assigns to activeProfileIndex
matchClosestProfile(lat, lon) == ClosestFrom(0, lat, lon, 999999, 0)

(***************************************************************************)
(* The Sample Sources handed to triCheck (lines 1186-1220)                  *)
(***************************************************************************)
VREF == 3300                       \* millivolts
ADC_MAX == 4095                    \* 12-bit ADC
TDS_CALIBRATION_OFFSET == 0        \* milli-ppm
TDS_CALIBRATION_FACTOR == 500      \* thousandths

\* the cubic of readTDSppm before the calibration factor, in hundredths of a
\* ppm, for a voltage in millivolts: ((133.42 v - 255.86) v + 857.39) v
TdsCubic(voltage) ==
    LET t1 == RoundDiv(13342 * voltage, 1000) - 25586
        t2 == RoundDiv(t1 * voltage, 1000) + 85739
    IN  RoundDiv(t2 * voltage, 1000)

\* readTDSppm without its last line
readTDSppmUnclamped(raw, temperature) ==
    LET voltage == RoundDiv(raw * VREF, ADC_MAX)
        tds == RoundDiv(TdsCubic(voltage) * TDS_CALIBRATION_FACTOR, 100)
                 + TDS_CALIBRATION_OFFSET
        compensationCoefficient == 1000 + (temperature - 25000) \div 50
    IN  RoundDiv(tds * 500, compensationCoefficient \div 2)

\* readTDSppm (lines 1186-1203) for the ADC value raw and lastTemperature,
\* in milli-ppm; the temperature is a whole number of tenths of a degree,
\* the result stays below 2000 ppm
readTDSppm(raw, temperature) ==
    Max(0, readTDSppmUnclamped(raw, temperature))

\* a plausible slip: the mock's base subtracted from the noise
readPHBaseSubtracted(r) == r * 10 - 7200

\* readPH (lines 1216-1220) for the value r of random(-5, 5), in milli-pH
readPH(r) == 7200 + r * 10

(***************************************************************************)
(* Bounds of the model                                                      *)
(***************************************************************************)
\* analysis cycles one behaviour runs (caps analysisCount)
MaxAnalyses == 1
\* how far below 0 and above 100 the scores handed to getVerdict range
ScoreMargin == 5
\* BLE command writes one behaviour of the device takes
MaxCommands == 2
\* button presses one behaviour of the device takes
MaxPresses == 1
\* lines in a stream of the display client
MaxLines == 3

(***************************************************************************)
(* Inputs: what the Sample Sources return                                   *)
(***************************************************************************)
\* the deviations of one burst's samples from the source's base, in steps
NOISE_PATTERNS ==
    { [i \in 1..SAMPLES_PER_BURST |-> 0],
      [i \in 1..SAMPLES_PER_BURST |-> IF i % 2 = 1 THEN 0 - 1 ELSE 1] }

\* one burst of a source <<base, step>>
BurstOf(src, pattern) ==
    [i \in 1..SAMPLES_PER_BURST |-> src[1] + src[2] * pattern[i]]

RECURSIVE BurstSeqs(_, _)
\* every sequence of n bursts
BurstSeqs(n, bursts) ==
    IF n = 0 THEN {<<>>}
    ELSE {s \o b : s \in BurstSeqs(n - 1, bursts), b \in bursts}

\* the B x S readings one Tri-Check may get from the sources <<base, step>>
SampleSeqs(sources) ==
    UNION { BurstSeqs(BURSTS, {BurstOf(src, pat) : pat \in NOISE_PATTERNS})
            : src \in sources }

\* TDS sources (milli-ppm): dead sensor, faulty sensor around zero, noisy low
\* reading, clean water, water above the absolute limit
TDS_SOURCES ==
    {<<0, 0>>, <<0, 1000>>, <<20000, 5000>>, <<150000, 2000>>, <<850000, 0>>}

\* pH sources (milli-pH): steady neutral, the mock's noise, acid, noisy
\* alkaline, faulty sensor below zero
PH_SOURCES ==
    {<<7200, 0>>, <<7200, 40>>, <<3500, 0>>, <<10500, 500>>, <<0 - 1000, 100>>}

TURBIDITY_READS == {2500, 8500}
DO_READS == {7500}
TEMPERATURE_READS == {25000}

\* the means, stabilities and scores the pure functions are applied to
TDS_MEANS == {150000, 300000, 400000, 650000, 800000, 850000, 1600000}
PH_MEANS ==
    {0, 3500, 4000, 6000, 6400, 6500, 7000, 7200, 7250, 8500, 10000, 10500}
TURBIDITY_MEANS == {500, 1000, 2500, 8000, 8500, 12000}
DO_MEANS == {2000, 4500, 5500, 6000, 7500, 10000, 13000}
STABILITIES ==
    {0, 30000, 40000, 49000, 50000, 60000, 69000, 70000, 95000, 100000}
SCORE_INPUTS == (0 - ScoreMargin)..(100 + ScoreMargin)

(***************************************************************************)
(* State                                                                    *)
(***************************************************************************)
VARIABLES
    pc,                 \* where analyzeWater (or the function applied) stands
    analysisCount,
    activeProfileIndex,
    lastTemperature,
    lastTDS,
    lastPH,
    lastDO,
    lastTurbidity,
    lastStability,
    lastJalScore,
    lastVerdict,
    tdsStability,       \* analyzeWater's locals
    phStability,
    criticalAlert,
    serialAlert,        \* the alert line printed on Serial, "" if none
    tdsReadings,        \* allReadings[] of the TDS Tri-Check
    phReadings,         \* allReadings[] of the pH Tri-Check
    task,               \* where the loop task and the BLE callback task stand
    taskAlert,          \* criticalAlert of each task's analyzeWater
    deviceConnected,
    wifiConnected,
    wifiSSID,
    wifiPassword,
    savedSSID,          \* Preferences "wifi"/"ssid"
    savedPassword,      \* Preferences "wifi"/"password"
    detectedCity,
    detectedLat,        \* hundredths of a degree
    detectedLon,
    bleValue,           \* the value last set on the data characteristic
    serialLog,          \* the Serial lines that carry command or credential text
    commands,           \* BLE writes so far
    presses,            \* button presses so far
    lookup,             \* how the most recent location lookup ended
    scoredWith,         \* the profile calculateJalScore read in each task's cycle
    sentBy,             \* the cycle that handed bleValue to the transport
    received,           \* the value most recently handed to onWrite
    oldDeviceConnected,
    advertising,        \* whether the device is advertising
    restartDue,         \* a disconnect that loop has not yet answered
    turbidityReadings,  \* what readTurbidity returned in this cycle
    doReadings,         \* what readDO returned in this cycle
    tri,                \* the locals of a triCheck call in progress
    stream,             \* the bytes the app's link carries, first to last
    incoming,           \* those of them no notification has brought yet
    buffer,             \* BluetoothManager.buffer
    onDataReceived      \* the values the data callback was called with

vars == <<pc, analysisCount, activeProfileIndex, lastTemperature, lastTDS,
          lastPH, lastDO, lastTurbidity, lastStability, lastJalScore,
          lastVerdict, tdsStability, phStability, criticalAlert, serialAlert,
          tdsReadings, phReadings, task, taskAlert, deviceConnected,
          wifiConnected, wifiSSID, wifiPassword, savedSSID, savedPassword,
          detectedCity, detectedLat, detectedLon, bleValue, serialLog,
          commands, presses, lookup, scoredWith, sentBy, received, oldDeviceConnected, advertising,
          restartDue, turbidityReadings, doReadings, tri, stream, incoming,
          buffer, onDataReceived>>

\* what the most recent successful lookup found
detectedPlace == <<detectedCity, detectedLat, detectedLon>>

\* the state of the device around analyzeWater
deviceVars ==
    <<task, taskAlert, deviceConnected, wifiConnected, wifiSSID, wifiPassword,
      savedSSID, savedPassword, detectedPlace, bleValue, serialLog, commands,
      presses, lookup, scoredWith, sentBy, received, oldDeviceConnected,
      advertising, restartDue>>

\* the display client (src/mobile-app/js/bluetooth.js)
appVars == <<stream, incoming, buffer, onDataReceived>>

\* the command last received and the advertising state kept by loop
linkVars == <<received, oldDeviceConnected, advertising, restartDue>>

\* analyzeWater's locals and the record of its Tri-Check readings
cycleVars ==
    <<pc, tdsStability, phStability, criticalAlert, serialAlert, tdsReadings,
      phReadings, turbidityReadings, doReadings, tri>>

\* the readings the override looks at
Readings ==
    [ph |-> lastPH, tds |-> lastTDS, turbidity |-> lastTurbidity,
     stability |-> lastStability]

\* the globals as their declarations initialise them (lines 1038-1052)
Globals ==
    /\ analysisCount = 0
    /\ activeProfileIndex = 0
    /\ lastTemperature = MOCK_TEMPERATURE_C
    /\ lastTDS = 0
    /\ lastPH = 0
    /\ lastDO = MOCK_DO_MGL
    /\ lastTurbidity = MOCK_TURBIDITY_NTU
    /\ lastStability = 0
    /\ lastJalScore = 0
    /\ lastVerdict = "UNKNOWN"

\* no triCheck call is in progress
NoTriCheck == [at |-> "none"]

NoLocals ==
    /\ tdsStability = 0
    /\ phStability = 0
    /\ criticalAlert = ""
    /\ serialAlert = ""
    /\ tdsReadings = <<>>
    /\ phReadings = <<>>
    /\ turbidityReadings = <<>>
    /\ doReadings = <<>>
    /\ tri = NoTriCheck

\* the display client is not part of the run
NoClient ==
    /\ stream = <<>>
    /\ incoming = <<>>
    /\ buffer = <<>>
    /\ onDataReceived = <<>>

TASKS == {"loop", "ble"}

DEFAULT_WIFI_SSID == <<"A", "i", "r", "t", "e", "l", "_", "S", "a", "m">>
DEFAULT_WIFI_PASS == <<"S", "a", "m", "j", "@", "7", "7", "7">>

\* no value set on the data characteristic yet; no cycle has sent one
NoValue == [kind |-> "none"]
NoCycle == [alert |-> "", scoredWith |-> 0 - 1]

\* the declarations of the WiFi and BLE globals (lines 923-930, 959-960,
\* 1038-1039), no task in analyzeWater, nothing logged or sent
DeviceGlobals ==
    /\ taskAlert = [t \in TASKS |-> ""]
    /\ deviceConnected = FALSE
    /\ wifiConnected = FALSE
    /\ wifiSSID = DEFAULT_WIFI_SSID
    /\ wifiPassword = DEFAULT_WIFI_PASS
    /\ savedSSID = <<>>
    /\ savedPassword = <<>>
    /\ detectedCity = "Unknown"
    /\ bleValue = NoValue
    /\ serialLog = {}
    /\ commands = 0
    /\ presses = 0
    /\ lookup = "none"
    /\ scoredWith = [t \in TASKS |-> 0 - 1]
    /\ sentBy = NoCycle
    /\ received = <<>>
    /\ oldDeviceConnected = FALSE
    /\ advertising = FALSE
    /\ restartDue = FALSE

\* lines 961-962: no location detected yet
NoLocation == detectedLat = 0 /\ detectedLon = 0

\* analyzeWater taken by itself: no task of the device runs
DeviceOff ==
    /\ task = [t \in TASKS |-> "off"]
    /\ DeviceGlobals
    /\ NoLocation

Init ==
    /\ pc = "idle"
    /\ Globals
    /\ NoLocals
    /\ DeviceOff
    /\ NoClient

(***************************************************************************)
(* analyzeWater (lines 1448-1534), one action per stage                     *)
(***************************************************************************)
\* lines 1449-1457: count the analysis, read the temperature
StartAnalysis ==
    /\ pc = "idle"
    /\ analysisCount < MaxAnalyses
    /\ analysisCount' = analysisCount + 1
    /\ \E t \in TEMPERATURE_READS : lastTemperature' = t
    /\ tdsStability' = 0
    /\ phStability' = 0
    /\ criticalAlert' = ""
    /\ serialAlert' = ""
    /\ tdsReadings' = <<>>
    /\ phReadings' = <<>>
    /\ turbidityReadings' = <<>>
    /\ doReadings' = <<>>
    /\ pc' = "tds"
    /\ UNCHANGED <<deviceVars, tri, appVars>>
    /\ UNCHANGED <<activeProfileIndex, lastTDS, lastPH, lastDO, lastTurbidity,
                   lastStability, lastJalScore, lastVerdict>>

\* line 1462: lastTDS = triCheck(readTDSppm, &tdsStability)
TriCheckTDS ==
    /\ pc = "tds"
    /\ \E readings \in SampleSeqs(TDS_SOURCES) :
         /\ tdsReadings' = readings
         /\ lastTDS' = triCheck(readings).mean
         /\ tdsStability' = triCheck(readings).stability
    /\ pc' = "ph"
    /\ UNCHANGED <<deviceVars, tri, appVars>>
    /\ UNCHANGED <<analysisCount, activeProfileIndex, lastTemperature, lastPH,
                   lastDO, lastTurbidity, lastStability, lastJalScore,
                   lastVerdict, phStability, criticalAlert, serialAlert,
                   phReadings, turbidityReadings, doReadings>>

\* line 1467: lastPH = triCheck(readPH, &phStability)
TriCheckPH ==
    /\ pc = "ph"
    /\ \E readings \in SampleSeqs(PH_SOURCES) :
         /\ phReadings' = readings
         /\ lastPH' = triCheck(readings).mean
         /\ phStability' = triCheck(readings).stability
    /\ pc' = "single"
    /\ UNCHANGED <<deviceVars, tri, appVars>>
    /\ UNCHANGED <<analysisCount, activeProfileIndex, lastTemperature, lastTDS,
                   lastDO, lastTurbidity, lastStability, lastJalScore,
                   lastVerdict, tdsStability, criticalAlert, serialAlert,
                   tdsReadings, turbidityReadings, doReadings>>

\* lines 1470-1478: turbidity and dissolved oxygen are read once each; the
\* overall stability is the mean of the two Tri-Check stabilities
ReadSingles ==
    /\ pc = "single"
    /\ \E t \in TURBIDITY_READS :
          lastTurbidity' = t /\ turbidityReadings' = <<t>>
    /\ \E d \in DO_READS :
          lastDO' = d /\ doReadings' = <<d>>
    /\ lastStability' = RoundDiv(tdsStability + phStability, 2)
    /\ pc' = "score"
    /\ UNCHANGED <<deviceVars, tri, appVars>>
    /\ UNCHANGED <<analysisCount, activeProfileIndex, lastTemperature, lastTDS,
                   lastPH, lastJalScore, lastVerdict, tdsStability,
                   phStability, criticalAlert, serialAlert, tdsReadings,
                   phReadings>>

\* lines 1482-1483: the score and the verdict it maps to
ScoreStep ==
    /\ pc = "score"
    /\ lastJalScore' = calculateJalScore(lastTDS, lastPH, lastTurbidity, lastDO,
                                         lastStability, activeProfileIndex)
    /\ lastVerdict' = getVerdict(lastJalScore')
    /\ pc' = "override"
    /\ UNCHANGED <<deviceVars, tri, appVars>>
    /\ UNCHANGED <<analysisCount, activeProfileIndex, lastTemperature, lastTDS,
                   lastPH, lastDO, lastTurbidity, lastStability, tdsStability,
                   phStability, criticalAlert, serialAlert, tdsReadings,
                   phReadings, turbidityReadings, doReadings>>

\* the override applied to the globals, leaving analyzeWater at `next`
Override(next) ==
    LET o == CriticalOverride(lastJalScore, lastVerdict, Readings)
    IN  /\ lastJalScore' = o.score
        /\ lastVerdict' = o.verdict
        /\ criticalAlert' = o.alert
        /\ serialAlert' = o.alert
        /\ pc' = next
        /\ UNCHANGED <<deviceVars, tri, appVars>>
        /\ UNCHANGED <<analysisCount, activeProfileIndex, lastTemperature,
                       lastTDS, lastPH, lastDO, lastTurbidity, lastStability,
                       tdsStability, phStability, tdsReadings, phReadings,
                       turbidityReadings, doReadings>>

\* lines 1489-1514: the override, and the alert printed if there is one
OverrideStep ==
    /\ pc = "override"
    /\ Override("done")

\* String(x, 1) and String(x, 2) of a float held in thousandths: the value in
\* tenths and in hundredths
Format1(x) == RoundDiv(x, 100)
Format2(x) == RoundDiv(x, 10)

\* the JSON object sendAnalysisViaBLE builds (lines 1546-1568), field by
\* field; season, ambient_temp and timestamp are left out of the model
AnalysisJson ==
    [kind |-> "analysis",
     tds |-> Format1(lastTDS),
     ph |-> Format2(lastPH),
     do |-> Format1(lastDO),
     turbidity |-> Format2(lastTurbidity),
     temperature |-> Format1(lastTemperature),
     stability |-> Format1(lastStability),
     jal_score |-> lastJalScore,
     verdict |-> lastVerdict,
     profile |-> Profile(activeProfileIndex).name,
     city |-> detectedCity]

\* lines 1531-1533: the result goes to the data characteristic if a client is
\* connected; `cycle` records which cycle sent it
SendIfConnected(cycle) ==
    IF deviceConnected
    THEN bleValue' = AnalysisJson /\ sentBy' = cycle
    ELSE UNCHANGED <<bleValue, sentBy>>

\* lines 1516-1534: the result is printed and sent; analyzeWater returns
FinishAnalysis ==
    /\ pc = "done"
    /\ pc' = "idle"
    /\ SendIfConnected([alert |-> criticalAlert,
                        scoredWith |-> activeProfileIndex])
    /\ UNCHANGED <<analysisCount, activeProfileIndex, lastTemperature, lastTDS,
                   lastPH, lastDO, lastTurbidity, lastStability, lastJalScore,
                   lastVerdict, tdsStability, phStability, criticalAlert,
                   serialAlert, tdsReadings, phReadings, task, taskAlert,
                   deviceConnected, wifiConnected, wifiSSID, wifiPassword,
                   savedSSID, savedPassword, detectedPlace, serialLog, commands,
                   presses, lookup, scoredWith>>
    /\ UNCHANGED <<linkVars, turbidityReadings, doReadings, tri, appVars>>

\* the analysis cycle over arbitrary Sample Sources
Next ==
    \/ StartAnalysis
    \/ TriCheckTDS
    \/ TriCheckPH
    \/ ReadSingles
    \/ ScoreStep
    \/ OverrideStep
    \/ FinishAnalysis

Spec == Init /\ [][Next]_vars

(***************************************************************************)
(* calculateJalScore, getVerdict and the override as functions of arbitrary *)
(* means and stability (lines 1482-1509)                                    *)
(***************************************************************************)
ScoreInit ==
    /\ pc = "score"
    /\ analysisCount = 1
    /\ activeProfileIndex \in 0..(PROFILE_COUNT - 1)
    /\ lastTemperature = MOCK_TEMPERATURE_C
    /\ lastTDS \in TDS_MEANS
    /\ lastPH \in PH_MEANS
    /\ lastDO \in DO_MEANS
    /\ lastTurbidity \in TURBIDITY_MEANS
    /\ lastStability \in STABILITIES
    /\ lastJalScore = 0
    /\ lastVerdict = "UNKNOWN"
    /\ NoLocals
    /\ DeviceOff
    /\ NoClient

ScoreNext ==
    \/ ScoreStep
    \/ OverrideStep

SpecScore == ScoreInit /\ [][ScoreNext]_vars

(***************************************************************************)
(* getVerdict and the override as functions of an arbitrary score and       *)
(* verdict (lines 1427-1432, 1489-1509)                                     *)
(***************************************************************************)
OverrideInit ==
    /\ pc \in {"verdict", "override"}
    /\ analysisCount = 1
    /\ activeProfileIndex = 0
    /\ lastTemperature = MOCK_TEMPERATURE_C
    /\ lastTDS \in {150000, 850000}
    /\ lastPH \in {3500, 7200, 10500}
    /\ lastDO = MOCK_DO_MGL
    /\ lastTurbidity \in {2500, 8500}
    /\ lastStability \in {30000, 40000, 95000}
    /\ lastJalScore \in SCORE_INPUTS
    /\ lastVerdict \in VERDICTS
    /\ NoLocals
    /\ DeviceOff
    /\ NoClient

\* lastVerdict = getVerdict(lastJalScore), for any integer score
GetVerdictStep ==
    /\ pc = "verdict"
    /\ lastVerdict' = getVerdict(lastJalScore)
    /\ pc' = "verdict_done"
    /\ UNCHANGED <<deviceVars, tri, appVars>>
    /\ UNCHANGED <<analysisCount, activeProfileIndex, lastTemperature, lastTDS,
                   lastPH, lastDO, lastTurbidity, lastStability, lastJalScore,
                   tdsStability, phStability, criticalAlert, serialAlert,
                   tdsReadings, phReadings, turbidityReadings, doReadings>>

\* the override applied a second time to its own result
ReapplyOverride ==
    /\ pc = "done"
    /\ Override("reapplied")

OverrideNext ==
    \/ GetVerdictStep
    \/ OverrideStep
    \/ ReapplyOverride

SpecOverride == OverrideInit /\ [][OverrideNext]_vars

(***************************************************************************)
(* matchClosestProfile (lines 1734-1748) applied to a detected location     *)
(***************************************************************************)
\* the locations a lookup may report, in hundredths of a degree: a grid over
\* the region of the profiles whose lines pass through places that are, to
\* the kilometre, as near to one profile as to another
DETECTED_LATS ==
    {1000, 1400, 1820, 2000, 2340, 2440, 2540, 2740, 2860, 2960, 3000}
DETECTED_LONS ==
    {7000, 7360, 7480, 7520, 7720, 7780, 8000, 8240, 8400, 8560, 8720, 9200}

\* fetchLocation has parsed a location (lines 1772-1773)
MatchInit ==
    /\ pc = "match"
    /\ Globals
    /\ NoLocals
    /\ task = [t \in TASKS |-> "off"]
    /\ DeviceGlobals
    /\ NoClient
    /\ detectedLat \in DETECTED_LATS
    /\ detectedLon \in DETECTED_LONS

\* line 1781: matchClosestProfile(detectedLat, detectedLon)
MatchStep ==
    /\ pc = "match"
    /\ activeProfileIndex' = matchClosestProfile(detectedLat, detectedLon)
    /\ pc' = "matched"
    /\ UNCHANGED <<deviceVars, tri, appVars>>
    /\ UNCHANGED <<analysisCount, lastTemperature, lastTDS, lastPH, lastDO,
                   lastTurbidity, lastStability, lastJalScore, lastVerdict,
                   tdsStability, phStability, criticalAlert, serialAlert,
                   tdsReadings, phReadings, turbidityReadings, doReadings>>

SpecMatch == MatchInit /\ [][MatchStep]_vars

(***************************************************************************)
(* triCheck (lines 1275-1325) sample by sample, called by analyzeWater      *)
(* for TDS (line 1462) or for pH (line 1467)                                *)
(***************************************************************************)
\* what analogRead and random return: a sensor reading nothing or next to
\* nothing; the ends of random(-5, 5)
ADC_READS == {0, 10}
PH_RANDOMS == {0 - 5, 4}

\* the readings sensorFunc() may return
SensorReadings(fn) ==
    IF fn = "tds"
    THEN {readTDSppm(raw, lastTemperature) : raw \in ADC_READS}
    ELSE {readPH(r) : r \in PH_RANDOMS}

\* triCheck is entered (lines 1276-1280), temperature already read
TriInit ==
    /\ pc = "tri"
    /\ Globals
    /\ DeviceOff
    /\ NoClient
    /\ tdsStability = 0
    /\ phStability = 0
    /\ criticalAlert = ""
    /\ serialAlert = ""
    /\ tdsReadings = <<>>
    /\ phReadings = <<>>
    /\ turbidityReadings = <<>>
    /\ doReadings = <<>>
    /\ \E fn \in {"tds", "ph"} :
          tri = [at |-> "sample", fn |-> fn, burst |-> 0, sample |-> 0,
                 burstSum |-> 0, burstMeans |-> <<>>, allReadings |-> <<>>,
                 calls |-> 0]

\* lines 1285-1290: one sample is read, stored and added to the burst sum
TriSample ==
    /\ tri.at = "sample"
    /\ tri.burst < BURSTS
    /\ tri.sample < SAMPLES_PER_BURST
    /\ \E reading \in SensorReadings(tri.fn) :
          tri' = [tri EXCEPT !.calls = @ + 1,
                             !.allReadings = Append(@, reading),
                             !.burstSum = @ + reading,
                             !.sample = @ + 1]
    /\ UNCHANGED <<pc, tdsStability, phStability, criticalAlert, serialAlert,
                   tdsReadings, phReadings, turbidityReadings, doReadings>>
    /\ UNCHANGED <<deviceVars, appVars>>
    /\ UNCHANGED <<analysisCount, activeProfileIndex, lastTemperature, lastTDS,
                   lastPH, lastDO, lastTurbidity, lastStability, lastJalScore,
                   lastVerdict>>

\* lines 1292-1298: the burst's mean; the next burst starts with a sum of 0
TriBurstEnd ==
    /\ tri.at = "sample"
    /\ tri.burst < BURSTS
    /\ tri.sample = SAMPLES_PER_BURST
    /\ tri' = [tri EXCEPT
                 !.burstMeans = Append(@, RoundDiv(tri.burstSum,
                                                   SAMPLES_PER_BURST)),
                 !.burst = @ + 1,
                 !.sample = 0,
                 !.burstSum = 0,
                 !.at = IF tri.burst + 1 < BURSTS THEN "sample" ELSE "aggregate"]
    /\ UNCHANGED <<pc, tdsStability, phStability, criticalAlert, serialAlert,
                   tdsReadings, phReadings, turbidityReadings, doReadings>>
    /\ UNCHANGED <<deviceVars, appVars>>
    /\ UNCHANGED <<analysisCount, activeProfileIndex, lastTemperature, lastTDS,
                   lastPH, lastDO, lastTurbidity, lastStability, lastJalScore,
                   lastVerdict>>

\* lines 1301-1324: mean and stability over allReadings, returned to the
\* caller (line 1462 or 1467)
TriFinish ==
    /\ tri.at = "aggregate"
    /\ LET result == triCheck(tri.allReadings)
       IN  /\ tri' = [tri EXCEPT !.at = "done"]
           /\ IF tri.fn = "tds"
              THEN /\ lastTDS' = result.mean
                   /\ tdsStability' = result.stability
                   /\ tdsReadings' = tri.allReadings
                   /\ UNCHANGED <<lastPH, phStability, phReadings>>
              ELSE /\ lastPH' = result.mean
                   /\ phStability' = result.stability
                   /\ phReadings' = tri.allReadings
                   /\ UNCHANGED <<lastTDS, tdsStability, tdsReadings>>
    /\ UNCHANGED <<pc, criticalAlert, serialAlert, turbidityReadings,
                   doReadings>>
    /\ UNCHANGED <<deviceVars, appVars>>
    /\ UNCHANGED <<analysisCount, activeProfileIndex, lastTemperature, lastDO,
                   lastTurbidity, lastStability, lastJalScore, lastVerdict>>

TriNext ==
    \/ TriSample
    \/ TriBurstEnd
    \/ TriFinish

SpecTriCheck == TriInit /\ [][TriNext]_vars

(***************************************************************************)
(* The device: setup and loop on the loop task, the BLE callbacks on the    *)
(* BLE stack's task. Both may call analyzeWater, which here advances in     *)
(* four steps per task. Nothing in the code keeps the two tasks apart.      *)
(***************************************************************************)
\* what the Sample Sources of the device return: steady clean water, steady
\* water above the absolute TDS limit
DEVICE_TDS_SAMPLES ==
    {[i \in 1..(BURSTS * SAMPLES_PER_BURST) |-> v] : v \in {150000, 850000}}
DEVICE_PH_SAMPLES == {[i \in 1..(BURSTS * SAMPLES_PER_BURST) |-> 7200]}

\* the credentials a client sends
NEW_SSID == <<"n", "e", "t">>
NEW_PASS == <<"p", "w", "1">>

\* the values written to the command characteristic
COMMANDS ==
    { CMD_ANALYZE,
      CMD_STATUS,
      WIFI_PREFIX \o NEW_SSID \o <<":">> \o NEW_PASS,
      WIFI_PREFIX \o NEW_SSID,
      WIFI_PREFIX \o <<":">> \o NEW_PASS,
      <<"R", "E", "S", "E", "T">>,
      <<>> }

\* the answers of the geolocation service: an HTTP error, a body without
\* coordinates, a place near Delhi, a place near Chennai
LOOKUP_OUTCOMES ==
    { [code |-> 500, fields |-> {}, lat |-> 0, lon |-> 0, city |-> ""],
      [code |-> 200, fields |-> {"status"}, lat |-> 0, lon |-> 0, city |-> ""],
      [code |-> 200, fields |-> {"status", "lat", "lon", "city"},
       lat |-> 2870, lon |-> 7710, city |-> "Noida"],
      [code |-> 200, fields |-> {"status", "lat", "lon"},
       lat |-> 1290, lon |-> 8020, city |-> ""] }

\* fetchLocation's parse succeeded: HTTP 200 with "lat": and "lon": found
LookupFound(o) == o.code = 200 /\ "lat" \in o.fields /\ "lon" \in o.fields

\* fetchLocation (lines 1753-1788) on the answer o
FetchLocation(o) ==
    IF LookupFound(o)
    THEN /\ detectedLat' = o.lat
         /\ detectedLon' = o.lon
         /\ detectedCity' = (IF "city" \in o.fields THEN o.city ELSE detectedCity)
         /\ activeProfileIndex' = matchClosestProfile(o.lat, o.lon)
         /\ lookup' = "found"
    ELSE /\ lookup' = "failed"
         /\ UNCHANGED <<detectedPlace, activeProfileIndex>>

\* a Serial line: its fixed text and the text appended to it
LogLine(label, text) == [label |-> label, text |-> text]

\* line 1694-1695: connectWiFi prints the SSID it connects to
ConnectLine(ssid) == LogLine("Connecting to WiFi: ", ssid)

SetTask(t, position) == task' = [task EXCEPT ![t] = position]

\* where a task is when it runs no handler
Home(t) == IF t = "loop" THEN "loop" ELSE "idle"

\* the positions of a task inside analyzeWater
IN_ANALYSIS == {"sampling", "scoring", "reporting"}

DeviceInit ==
    /\ pc = "device"
    /\ Globals
    /\ NoLocals
    /\ DeviceGlobals
    /\ NoClient
    /\ NoLocation
    /\ task = [t \in TASKS |-> IF t = "loop" THEN "setup" ELSE "idle"]

\* setup (lines 1873-1946): default credentials, then saved ones, then time,
\* location and weather if WiFi came up
Setup ==
    /\ task["loop"] = "setup"
    /\ \E ok \in BOOLEAN, o \in LOOKUP_OUTCOMES :
          /\ wifiSSID' = DEFAULT_WIFI_SSID
          /\ wifiPassword' = DEFAULT_WIFI_PASS
          /\ wifiConnected' = ok
          /\ serialLog' = serialLog \cup {ConnectLine(DEFAULT_WIFI_SSID)}
          /\ IF ok
             THEN FetchLocation(o)
             ELSE /\ lookup' = "failed"
                  /\ UNCHANGED <<detectedPlace, activeProfileIndex>>
    /\ SetTask("loop", "loop")
    /\ UNCHANGED <<cycleVars, appVars>>
    /\ advertising' = TRUE      \* setupBLE, line 1620
    /\ UNCHANGED <<received, oldDeviceConnected, restartDue>>
    /\ UNCHANGED <<analysisCount, lastTemperature, lastTDS, lastPH, lastDO,
                  lastTurbidity, lastStability, lastJalScore, lastVerdict,
                  taskAlert, deviceConnected, savedSSID, savedPassword,
                  bleValue, commands, presses, scoredWith, sentBy>>

\* MyServerCallbacks::onConnect (lines 1073-1076)
OnConnect ==
    /\ task["loop"] # "setup"
    /\ ~deviceConnected
    /\ deviceConnected' = TRUE
    /\ UNCHANGED <<cycleVars, appVars>>
    /\ advertising
    /\ advertising' = FALSE     \* a connected peripheral stops advertising
    /\ UNCHANGED <<received, oldDeviceConnected, restartDue>>
    /\ UNCHANGED <<analysisCount, activeProfileIndex, lastTemperature,
                  lastTDS, lastPH, lastDO, lastTurbidity, lastStability,
                  lastJalScore, lastVerdict, task, taskAlert, wifiConnected,
                  wifiSSID, wifiPassword, savedSSID, savedPassword,
                  detectedPlace, bleValue, serialLog, commands, presses,
                  lookup, scoredWith, sentBy>>

\* MyServerCallbacks::onDisconnect (lines 1078-1081)
OnDisconnect ==
    /\ deviceConnected
    /\ deviceConnected' = FALSE
    /\ UNCHANGED <<cycleVars, appVars>>
    /\ advertising' \in BOOLEAN  \* the BLE stack may or may not re-advertise
    /\ restartDue' = TRUE
    /\ UNCHANGED <<received, oldDeviceConnected>>
    /\ UNCHANGED <<analysisCount, activeProfileIndex, lastTemperature,
                  lastTDS, lastPH, lastDO, lastTurbidity, lastStability,
                  lastJalScore, lastVerdict, task, taskAlert, wifiConnected,
                  wifiSSID, wifiPassword, savedSSID, savedPassword,
                  detectedPlace, bleValue, serialLog, commands, presses,
                  lookup, scoredWith, sentBy>>

\* a write to the command characteristic reaches onWrite (line 1088)
WriteArrives ==
    /\ deviceConnected
    /\ task["ble"] = "idle"
    /\ commands < MaxCommands
    /\ commands' = commands + 1

\* line 1092: the command is printed as received
ReceivedLine(cmd) == LogLine("Command received: ", cmd)

\* onWrite with an empty value (line 1090)
OnWriteEmpty ==
    /\ WriteArrives
    /\ <<>> \in COMMANDS
    /\ UNCHANGED <<cycleVars, appVars>>
    /\ received' = <<>>
    /\ UNCHANGED <<oldDeviceConnected, advertising, restartDue>>
    /\ UNCHANGED <<analysisCount, activeProfileIndex, lastTemperature,
                  lastTDS, lastPH, lastDO, lastTurbidity, lastStability,
                  lastJalScore, lastVerdict, task, taskAlert,
                  deviceConnected, wifiConnected, wifiSSID, wifiPassword,
                  savedSSID, savedPassword, detectedPlace, bleValue,
                  serialLog, presses, lookup, scoredWith, sentBy>>

\* onWrite with ANALYZE (lines 1094-1096): analyzeWater is called
OnWriteAnalyze ==
    /\ WriteArrives
    /\ CMD_ANALYZE \in COMMANDS
    /\ serialLog' = serialLog \cup {ReceivedLine(CMD_ANALYZE)}
    /\ SetTask("ble", "begin")
    /\ UNCHANGED <<cycleVars, appVars>>
    /\ received' = CMD_ANALYZE
    /\ UNCHANGED <<oldDeviceConnected, advertising, restartDue>>
    /\ UNCHANGED <<analysisCount, activeProfileIndex, lastTemperature,
                  lastTDS, lastPH, lastDO, lastTurbidity, lastStability,
                  lastJalScore, lastVerdict, taskAlert, deviceConnected,
                  wifiConnected, wifiSSID, wifiPassword, savedSSID,
                  savedPassword, detectedPlace, bleValue, presses, lookup,
                  scoredWith, sentBy>>

\* sendStatus (lines 1579-1583)
StatusJson == [kind |-> "status", status |-> "ready", analyses |-> analysisCount]

\* onWrite with STATUS (lines 1097-1098)
OnWriteStatus ==
    /\ WriteArrives
    /\ CMD_STATUS \in COMMANDS
    /\ serialLog' = serialLog \cup {ReceivedLine(CMD_STATUS)}
    /\ bleValue' = StatusJson
    /\ sentBy' = NoCycle
    /\ UNCHANGED <<cycleVars, appVars>>
    /\ received' = CMD_STATUS
    /\ UNCHANGED <<oldDeviceConnected, advertising, restartDue>>
    /\ UNCHANGED <<analysisCount, activeProfileIndex, lastTemperature,
                  lastTDS, lastPH, lastDO, lastTurbidity, lastStability,
                  lastJalScore, lastVerdict, task, taskAlert,
                  deviceConnected, wifiConnected, wifiSSID, wifiPassword,
                  savedSSID, savedPassword, detectedPlace, presses, lookup,
                  scoredWith>>

\* onWrite with a WIFI: command (lines 1099-1101) and handleWiFiCommand up to
\* the confirmation (lines 1111-1138), or its rejection (lines 1151-1153)
OnWriteWiFi ==
    /\ WriteArrives
    /\ \E cmd \in COMMANDS :
          /\ StartsWith(cmd, WIFI_PREFIX)
          /\ received' = cmd
          /\ LET credentials == Substring(cmd, 5)
                 separatorIdx == IndexOf(credentials, ":")
                 newSSID == SubstringTo(credentials, 0, separatorIdx)
                 newPassword == Substring(credentials, separatorIdx + 1)
             IN  IF separatorIdx > 0
                 THEN /\ serialLog' = serialLog \cup
                            { ReceivedLine(cmd),
                              LogLine("   SSID: ", newSSID),
                              LogLine("   Password: ",
                                      DigitString(Len(newPassword))
                                        \o <<" ", "c", "h", "a", "r", "s">>) }
                      /\ savedSSID' = newSSID
                      /\ savedPassword' = newPassword
                      /\ wifiSSID' = newSSID
                      /\ wifiPassword' = newPassword
                      /\ bleValue' = [kind |-> "wifi_saved",
                                      status |-> "wifi_saved", ssid |-> newSSID]
                      /\ sentBy' = NoCycle
                      /\ SetTask("ble", "wifi_connect")
                 ELSE /\ serialLog' = serialLog \cup {ReceivedLine(cmd)}
                      /\ UNCHANGED <<savedSSID, savedPassword, wifiSSID,
                                     wifiPassword, bleValue, sentBy, task>>
    /\ UNCHANGED <<cycleVars, appVars>>
    /\ UNCHANGED <<oldDeviceConnected, advertising, restartDue>>
    /\ UNCHANGED <<analysisCount, activeProfileIndex, lastTemperature,
                  lastTDS, lastPH, lastDO, lastTurbidity, lastStability,
                  lastJalScore, lastVerdict, taskAlert, deviceConnected,
                  wifiConnected, detectedPlace, presses, lookup, scoredWith>>

\* onWrite with any other value: printed, then ignored (lines 1092-1102)
OnWriteOther ==
    /\ WriteArrives
    /\ \E cmd \in COMMANDS :
          /\ Len(cmd) > 0
          /\ cmd # CMD_ANALYZE
          /\ cmd # CMD_STATUS
          /\ ~StartsWith(cmd, WIFI_PREFIX)
          /\ received' = cmd
          /\ serialLog' = serialLog \cup {ReceivedLine(cmd)}
    /\ UNCHANGED <<cycleVars, appVars>>
    /\ UNCHANGED <<oldDeviceConnected, advertising, restartDue>>
    /\ UNCHANGED <<analysisCount, activeProfileIndex, lastTemperature,
                  lastTDS, lastPH, lastDO, lastTurbidity, lastStability,
                  lastJalScore, lastVerdict, task, taskAlert,
                  deviceConnected, wifiConnected, wifiSSID, wifiPassword,
                  savedSSID, savedPassword, detectedPlace, bleValue, presses,
                  lookup, scoredWith, sentBy>>

\* handleWiFiCommand, lines 1140-1144: WiFi.disconnect and connectWiFi
\* (lines 1693-1715), which may or may not get a connection
WiFiReconnect ==
    /\ task["ble"] = "wifi_connect"
    /\ serialLog' = serialLog \cup {ConnectLine(wifiSSID)}
    /\ \E ok \in BOOLEAN :
          /\ wifiConnected' = ok
          /\ IF ok
             THEN SetTask("ble", "wifi_fetch") /\ UNCHANGED lookup
             ELSE SetTask("ble", "idle") /\ lookup' = "failed"
    /\ UNCHANGED <<cycleVars, appVars>>
    /\ UNCHANGED linkVars
    /\ UNCHANGED <<analysisCount, activeProfileIndex, lastTemperature,
                  lastTDS, lastPH, lastDO, lastTurbidity, lastStability,
                  lastJalScore, lastVerdict, taskAlert, deviceConnected,
                  wifiSSID, wifiPassword, savedSSID, savedPassword,
                  detectedPlace, bleValue, commands, presses, scoredWith,
                  sentBy>>

\* handleWiFiCommand, lines 1146-1150: the new location, if WiFi is up
WiFiFetchLocation ==
    /\ task["ble"] = "wifi_fetch"
    /\ \E o \in LOOKUP_OUTCOMES : FetchLocation(o)
    /\ SetTask("ble", "idle")
    /\ UNCHANGED <<cycleVars, appVars>>
    /\ UNCHANGED linkVars
    /\ UNCHANGED <<analysisCount, lastTemperature, lastTDS, lastPH, lastDO,
                  lastTurbidity, lastStability, lastJalScore, lastVerdict,
                  taskAlert, deviceConnected, wifiConnected, wifiSSID,
                  wifiPassword, savedSSID, savedPassword, bleValue,
                  serialLog, commands, presses, scoredWith, sentBy>>

\* loop, lines 1954-1958: the button is seen pressed, analyzeWater is called
ButtonPress ==
    /\ task["loop"] = "loop"
    /\ presses < MaxPresses
    /\ presses' = presses + 1
    /\ SetTask("loop", "begin")
    /\ UNCHANGED <<cycleVars, appVars>>
    /\ UNCHANGED linkVars
    /\ UNCHANGED <<analysisCount, activeProfileIndex, lastTemperature,
                  lastTDS, lastPH, lastDO, lastTurbidity, lastStability,
                  lastJalScore, lastVerdict, taskAlert, deviceConnected,
                  wifiConnected, wifiSSID, wifiPassword, savedSSID,
                  savedPassword, detectedPlace, bleValue, serialLog, commands,
                  lookup, scoredWith, sentBy>>

\* analyzeWater, lines 1449-1457, run by task t
AnalyzeBegin(t) ==
    /\ task[t] = "begin"
    /\ analysisCount' = analysisCount + 1
    /\ \E temp \in TEMPERATURE_READS : lastTemperature' = temp
    /\ taskAlert' = [taskAlert EXCEPT ![t] = ""]
    /\ scoredWith' = [scoredWith EXCEPT ![t] = 0 - 1]
    /\ SetTask(t, "sampling")
    /\ UNCHANGED <<cycleVars, appVars>>
    /\ UNCHANGED linkVars
    /\ UNCHANGED <<activeProfileIndex, lastTDS, lastPH, lastDO,
                  lastTurbidity, lastStability, lastJalScore, lastVerdict,
                  deviceConnected, wifiConnected, wifiSSID, wifiPassword,
                  savedSSID, savedPassword, detectedPlace, bleValue,
                  serialLog, commands, presses, lookup, sentBy>>

\* analyzeWater, lines 1459-1478, run by task t: the two Tri-Checks, the
\* turbidity and oxygen reads, the overall stability
AnalyzeSample(t) ==
    /\ task[t] = "sampling"
    /\ \E tds \in DEVICE_TDS_SAMPLES, ph \in DEVICE_PH_SAMPLES :
          /\ lastTDS' = triCheck(tds).mean
          /\ lastPH' = triCheck(ph).mean
          /\ lastStability' =
                RoundDiv(triCheck(tds).stability + triCheck(ph).stability, 2)
    /\ lastTurbidity' = MOCK_TURBIDITY_NTU    \* the mocks, their noise left out
    /\ lastDO' = MOCK_DO_MGL
    /\ SetTask(t, "scoring")
    /\ UNCHANGED <<cycleVars, appVars>>
    /\ UNCHANGED linkVars
    /\ UNCHANGED <<analysisCount, activeProfileIndex, lastTemperature,
                  lastJalScore, lastVerdict, taskAlert, deviceConnected,
                  wifiConnected, wifiSSID, wifiPassword, savedSSID,
                  savedPassword, detectedPlace, bleValue, serialLog, commands,
                  presses, lookup, scoredWith, sentBy>>

\* analyzeWater, lines 1480-1514, run by task t: score, verdict, override
AnalyzeScore(t) ==
    /\ task[t] = "scoring"
    /\ LET score == calculateJalScore(lastTDS, lastPH, lastTurbidity, lastDO,
                                      lastStability, activeProfileIndex)
           o == CriticalOverride(score, getVerdict(score), Readings)
       IN  /\ lastJalScore' = o.score
           /\ lastVerdict' = o.verdict
           /\ taskAlert' = [taskAlert EXCEPT ![t] = o.alert]
    /\ scoredWith' = [scoredWith EXCEPT ![t] = activeProfileIndex]
    /\ SetTask(t, "reporting")
    /\ UNCHANGED <<cycleVars, appVars>>
    /\ UNCHANGED linkVars
    /\ UNCHANGED <<analysisCount, activeProfileIndex, lastTemperature,
                  lastTDS, lastPH, lastDO, lastTurbidity, lastStability,
                  deviceConnected, wifiConnected, wifiSSID, wifiPassword,
                  savedSSID, savedPassword, detectedPlace, bleValue,
                  serialLog, commands, presses, lookup, sentBy>>

\* analyzeWater, lines 1516-1534, run by task t: the result printed and sent
AnalyzeReport(t) ==
    /\ task[t] = "reporting"
    /\ SendIfConnected([alert |-> taskAlert[t], scoredWith |-> scoredWith[t]])
    /\ SetTask(t, Home(t))
    /\ UNCHANGED <<cycleVars, appVars>>
    /\ UNCHANGED linkVars
    /\ UNCHANGED <<analysisCount, activeProfileIndex, lastTemperature,
                  lastTDS, lastPH, lastDO, lastTurbidity, lastStability,
                  lastJalScore, lastVerdict, taskAlert, deviceConnected,
                  wifiConnected, wifiSSID, wifiPassword, savedSSID,
                  savedPassword, detectedPlace, serialLog, commands, presses,
                  lookup, scoredWith>>

\* loop, line 1964: a disconnect is seen; delay(500) follows
LoopDisconnectSeen ==
    /\ task["loop"] = "loop"
    /\ ~deviceConnected
    /\ oldDeviceConnected
    /\ SetTask("loop", "restart")
    /\ UNCHANGED <<cycleVars, appVars>>
    /\ UNCHANGED linkVars
    /\ UNCHANGED <<analysisCount, activeProfileIndex, lastTemperature,
                  lastTDS, lastPH, lastDO, lastTurbidity, lastStability,
                  lastJalScore, lastVerdict, taskAlert, deviceConnected,
                  wifiConnected, wifiSSID, wifiPassword, savedSSID,
                  savedPassword, detectedPlace, bleValue, serialLog, commands,
                  presses, lookup, scoredWith, sentBy>>

\* loop, lines 1966-1968: advertising is restarted after the delay
LoopRestartAdvertising ==
    /\ task["loop"] = "restart"
    /\ advertising' = ~deviceConnected
    /\ restartDue' = FALSE
    /\ oldDeviceConnected' = deviceConnected
    /\ SetTask("loop", "loop")
    /\ UNCHANGED <<cycleVars, appVars>>
    /\ UNCHANGED <<analysisCount, activeProfileIndex, lastTemperature,
                  lastTDS, lastPH, lastDO, lastTurbidity, lastStability,
                  lastJalScore, lastVerdict, taskAlert, deviceConnected,
                  wifiConnected, wifiSSID, wifiPassword, savedSSID,
                  savedPassword, detectedPlace, bleValue, serialLog, commands,
                  presses, lookup, scoredWith, sentBy, received>>

\* loop, lines 1971-1973: a new connection is noted
LoopConnectSeen ==
    /\ task["loop"] = "loop"
    /\ deviceConnected
    /\ ~oldDeviceConnected
    /\ oldDeviceConnected' = deviceConnected
    /\ UNCHANGED <<cycleVars, appVars>>
    /\ UNCHANGED <<analysisCount, activeProfileIndex, lastTemperature,
                  lastTDS, lastPH, lastDO, lastTurbidity, lastStability,
                  lastJalScore, lastVerdict, task, taskAlert, deviceConnected,
                  wifiConnected, wifiSSID, wifiPassword, savedSSID,
                  savedPassword, detectedPlace, bleValue, serialLog, commands,
                  presses, lookup, scoredWith, sentBy, received, advertising,
                  restartDue>>

DeviceNext ==
    \/ Setup
    \/ OnConnect
    \/ OnDisconnect
    \/ OnWriteEmpty
    \/ OnWriteAnalyze
    \/ OnWriteStatus
    \/ OnWriteWiFi
    \/ OnWriteOther
    \/ WiFiReconnect
    \/ WiFiFetchLocation
    \/ ButtonPress
    \/ LoopDisconnectSeen
    \/ LoopRestartAdvertising
    \/ LoopConnectSeen
    \/ \E t \in TASKS : AnalyzeBegin(t)
    \/ \E t \in TASKS : AnalyzeSample(t)
    \/ \E t \in TASKS : AnalyzeScore(t)
    \/ \E t \in TASKS : AnalyzeReport(t)

SpecDevice == DeviceInit /\ [][DeviceNext]_vars

\* the scheduling of the firmware: setup returns and loop is called again
\* and again (line 1975 only delays it by 10 ms), and a task that is inside
\* analyzeWater goes on to its end.  What comes from outside (a client
\* connecting, disconnecting or writing, the button, the network) is under
\* no obligation to happen.
LoopKeepsRunning ==
    /\ WF_vars(Setup)
    /\ WF_vars(LoopDisconnectSeen)
    /\ WF_vars(LoopRestartAdvertising)
    /\ WF_vars(LoopConnectSeen)
    /\ \A t \in TASKS :
          /\ WF_vars(AnalyzeBegin(t))
          /\ WF_vars(AnalyzeSample(t))
          /\ WF_vars(AnalyzeScore(t))
          /\ WF_vars(AnalyzeReport(t))

SpecDeviceLive == DeviceInit /\ [][DeviceNext]_vars /\ LoopKeepsRunning

(***************************************************************************)
(* The display client: BluetoothManager._handleData                         *)
(* (src/mobile-app/js/bluetooth.js, lines 468-497).  Bytes and characters   *)
(* are numbers: a byte's value, a character's code point.                   *)
(***************************************************************************)
LF == 10
QUOTE == 34
REPLACEMENT == 65533     \* U+FFFD, what a decoder puts for bytes it rejects

\* what String.prototype.trim removes, as far as the streams below hold it
WHITESPACE == {9, LF, 13, 32}

\* lines 470-471: new TextDecoder('utf-8').decode(value).  The decoder is
\* made for this one value and is not told that more follows, so a
\* two-byte character is decoded only if both its bytes are in the value; a
\* lead byte without its continuation and a continuation byte without its
\* lead each become U+FFFD.  Sequences of three and four bytes are left out.
RECURSIVE decode(_)
decode(value) ==
    IF value = <<>> THEN <<>>
    ELSE LET b == Head(value)
         IN  IF b < 128
             THEN <<b>> \o decode(Tail(value))
             ELSE IF /\ b \in 194..223
                     /\ Len(value) >= 2
                     /\ value[2] \in 128..191
                  THEN <<(b - 192) * 64 + (value[2] - 128)>>
                          \o decode(Tail(Tail(value)))
                  ELSE <<REPLACEMENT>> \o decode(Tail(value))

\* line 477: text.split('\n'), the pieces between the line feeds
RECURSIVE split(_)
split(text) ==
    IF \A i \in 1..Len(text) : text[i] # LF
    THEN <<text>>
    ELSE LET i == CHOOSE k \in 1..Len(text) :
                      /\ text[k] = LF
                      /\ \A j \in 1..(k - 1) : text[j] # LF
         IN  <<SubSeq(text, 1, i - 1)>>
                \o split(SubSeq(text, i + 1, Len(text)))

\* line 480: lines[i].trim()
RECURSIVE trim(_)
trim(line) ==
    IF line # <<>> /\ Head(line) \in WHITESPACE
    THEN trim(Tail(line))
    ELSE IF line # <<>> /\ line[Len(line)] \in WHITESPACE
         THEN trim(SubSeq(line, 1, Len(line) - 1))
         ELSE line

\* line 483: JSON.parse(line), for the texts of the streams below: a string
\* literal parses to the characters between its quotes, anything else throws
IsJSON(line) ==
    /\ Len(line) >= 2
    /\ Head(line) = QUOTE
    /\ line[Len(line)] = QUOTE
    /\ \A i \in 2..(Len(line) - 1) : line[i] # QUOTE /\ line[i] >= 32

JSONparse(line) == SubSeq(line, 2, Len(line) - 1)

\* lines 479-493: what the loop over all pieces but the last hands to the
\* data callback; an empty line is skipped, a line that does not parse is
\* warned about and skipped
RECURSIVE dataOf(_)
dataOf(lines) ==
    IF Len(lines) <= 1 THEN <<>>
    ELSE LET line == trim(Head(lines))
         IN  (IF line # <<>> /\ IsJSON(line)
              THEN <<JSONparse(line)>>
              ELSE <<>>) \o dataOf(Tail(lines))

\* _handleData (lines 468-497) on the value of one notification
handleData(value) ==
    LET lines == split(buffer \o decode(value))
    IN  /\ onDataReceived' = onDataReceived \o dataOf(lines)
        /\ buffer' = lines[Len(lines)]

\* the lines a stream is made of, without their line feed: "a", "b", the
\* two-byte character e-acute in quotes, a bare letter (not JSON), an empty
\* line, and "a" between a space and a carriage return
LINES ==
    {<<QUOTE, 97, QUOTE>>, <<QUOTE, 98, QUOTE>>, <<QUOTE, 195, 169, QUOTE>>,
     <<97>>, <<>>, <<32, QUOTE, 97, QUOTE, 13>>}

\* what may follow the last line feed
FRAGMENTS == {<<>>, <<QUOTE, 98>>}

\* the streams of at most n lines
RECURSIVE StreamsOf(_)
StreamsOf(n) ==
    IF n = 0 THEN FRAGMENTS
    ELSE FRAGMENTS
           \cup {l \o <<LF>> \o s : l \in LINES, s \in StreamsOf(n - 1)}

\* the client is connected with an empty buffer (line 349) and a data
\* callback set; the device's side is left out
ClientInit ==
    /\ pc = "client"
    /\ Globals
    /\ NoLocals
    /\ DeviceOff
    /\ stream \in StreamsOf(MaxLines)
    /\ incoming = stream
    /\ buffer = <<>>
    /\ onDataReceived = <<>>

\* a characteristicvaluechanged event (line 417): the next bytes of the
\* stream, however many, reach _handleData
Notification ==
    /\ pc = "client"
    /\ \E n \in 1..Len(incoming) :
          /\ handleData(SubSeq(incoming, 1, n))
          /\ incoming' = SubSeq(incoming, n + 1, Len(incoming))
    /\ UNCHANGED <<stream, cycleVars, deviceVars>>
    /\ UNCHANGED <<analysisCount, activeProfileIndex, lastTemperature, lastTDS,
                   lastPH, lastDO, lastTurbidity, lastStability, lastJalScore,
                   lastVerdict>>

SpecHandleData == ClientInit /\ [][Notification]_vars

\* the bytes the notifications have brought so far
Arrived == SubSeq(stream, 1, Len(stream) - Len(incoming))

\* the messages in a run of bytes, and what follows its last line feed
MessagesIn(bytes) == dataOf(split(decode(bytes)))
FragmentOf(bytes) == split(decode(bytes))[Len(split(decode(bytes)))]

(***************************************************************************)
(* Vocabulary of the properties                                             *)
(***************************************************************************)
\* severity of a verdict, SAFE the least severe
Severity(v) ==
    CASE v = "SAFE" -> 0
      [] v = "ACCEPTABLE" -> 1
      [] v = "CAUTION" -> 2
      [] v = "UNSAFE" -> 3

\* the verdict one level more severe
OneLevelMoreSevere(v) ==
    CASE v = "SAFE" -> "ACCEPTABLE"
      [] v = "ACCEPTABLE" -> "CAUTION"
      [] OTHER -> "UNSAFE"

\* the most severe verdict of a non-empty set
MostSevere(vs) == CHOOSE v \in vs : \A w \in vs : Severity(w) <= Severity(v)

\* the least element of a non-empty set of integers
Least(S) == CHOOSE x \in S : \A y \in S : x <= y

DangerRules == {"ph", "tds", "turbidity"}
AllRules == DangerRules \cup {"stability"}

\* the rules whose condition holds for the current readings
Matching == {rule \in AllRules : RuleMatches(rule, Readings)}

\* every order in which the four rules can be evaluated
AllOrders ==
    {o \in [1..4 -> AllRules] : \A i, j \in 1..4 : o[i] = o[j] => i = j}

\* the cap a rule puts on the score, if any
CapsOf(rules) == {OVERRIDE_SCORE_CAP : rule \in rules \cap DangerRules}

\* the verdict a matching rule asks for, given the verdict it finds
DemandOf(rule, verdict) ==
    IF rule \in DangerRules THEN "UNSAFE" ELSE LowStabilityVerdict(verdict)

AllEqual(readings) == \A i \in 1..Len(readings) : readings[i] = readings[1]

\* the step in which analyzeWater applies the override
OverrideTaken == pc = "override" /\ pc' = "done"

(***************************************************************************)
(* Properties                                                               *)
(***************************************************************************)
\* C1: the jal_score is an integer in [0,100], as returned by
\* calculateJalScore and after the override, for any means and any stability
\* in [0,100].
C1_ScoreInRange ==
    pc \in {"override", "done"} => lastJalScore \in 0..100

\* an override that lowered a score above the cap
C1_Witness ==
    /\ pc = "done"
    /\ lastPH < PH_DANGER_LOW
    /\ lastStability = 100000
    /\ lastJalScore = OVERRIDE_SCORE_CAP

\* C2: getVerdict maps every integer score to one verdict: >= 80 SAFE,
\* 60..79 ACCEPTABLE, 40..59 CAUTION, below 40 UNSAFE.
C2_VerdictThresholds ==
    pc = "verdict_done" =>
        /\ lastVerdict \in VERDICTS
        /\ lastJalScore >= 80 => lastVerdict = "SAFE"
        /\ lastJalScore \in 60..79 => lastVerdict = "ACCEPTABLE"
        /\ lastJalScore \in 40..59 => lastVerdict = "CAUTION"
        /\ lastJalScore < 40 => lastVerdict = "UNSAFE"

C2_Witness ==
    pc = "verdict_done" /\ lastJalScore = 80 /\ lastVerdict = "SAFE"

\* C3: a cycle that ends with pH below 4 or above 10, TDS above 800 ppm or
\* turbidity above 8 NTU ends UNSAFE with a score of at most 30, whatever
\* the weighted formula gave and whatever the profile.
C3_DangerForcesUnsafe ==
    (/\ pc = "done"
     /\ \/ lastPH < 4000
        \/ lastPH > 10000
        \/ lastTDS > 800000
        \/ lastTurbidity > 8000) =>
        lastVerdict = "UNSAFE" /\ lastJalScore <= 30

\* pH 3.5 with every other reading perfect
C3_Witness ==
    /\ pc = "done"
    /\ lastPH = 3500
    /\ lastTDS = 150000
    /\ lastTurbidity = 500
    /\ lastDO = 7500
    /\ lastStability = 100000
    /\ lastVerdict = "UNSAFE"

\* C4: at the end of a cycle the verdict is getVerdict of the final score.
C4_VerdictFollowsScore ==
    pc = "done" => lastVerdict = getVerdict(lastJalScore)

\* a cycle in which the low-stability rule fired
C4_Witness ==
    /\ pc = "done"
    /\ criticalAlert = ALERT_STABILITY
    /\ lastVerdict = "ACCEPTABLE"

\* C5: applying the override to its own result changes neither the score
\* nor the verdict.
C5_OverrideIdempotent ==
    [][(pc = "done" /\ pc' = "reapplied") =>
          lastJalScore' = lastJalScore /\ lastVerdict' = lastVerdict]_vars

\* a second application after a first one that capped the score
C5_Witness ==
    /\ pc = "reapplied"
    /\ lastPH < PH_DANGER_LOW
    /\ lastJalScore = OVERRIDE_SCORE_CAP
    /\ lastVerdict = "UNSAFE"

\* C6: when several rules match, the final score is the least of the
\* weighted score and the matching rules' caps, the final verdict is the
\* most severe one a matching rule asks for, and every order of evaluating
\* the rules gives that score and verdict.
C6_AllRulesApplied ==
    [][(OverrideTaken /\ Cardinality(Matching) >= 2) =>
          /\ lastJalScore' = Least({lastJalScore} \cup CapsOf(Matching))
          /\ lastVerdict' =
                MostSevere({DemandOf(rule, lastVerdict) : rule \in Matching})
          /\ \A o \in AllOrders :
                LET st == ApplyRules(o, [score |-> lastJalScore,
                                         verdict |-> lastVerdict,
                                         alert |-> ""], Readings)
                IN  st.score = lastJalScore' /\ st.verdict = lastVerdict']_vars

\* all four rules matched on a weighted score below the cap
C6_Witness ==
    /\ pc = "done"
    /\ Matching = AllRules
    /\ lastJalScore < OVERRIDE_SCORE_CAP
    /\ lastVerdict = "UNSAFE"

C8_StabilityInRange ==
    /\ tdsReadings # <<>> => tdsStability \in 0..100000
    /\ phReadings # <<>> => phStability \in 0..100000
    /\ pc \in {"score", "override", "done"} => lastStability \in 0..100000

\* a highly noisy TDS burst and a pH burst of negative mean
C8_Witness ==
    /\ pc = "score"
    /\ MeanOf(phReadings) < 0
    /\ ~AllEqual(phReadings)
    /\ StdDevOf(tdsReadings) * 10 > MeanOf(tdsReadings)
    /\ MeanOf(tdsReadings) > 0

\* C9: a larger coefficient of variation never gives a larger stability,
\* and a coefficient of variation of 0 gives stability 100.
C9_StabilityMonotoneInCV ==
    pc = "single" =>
        LET tdsCV == CoefficientOfVariation(tdsReadings)
            phCV == CoefficientOfVariation(phReadings)
        IN  /\ tdsCV <= phCV => tdsStability >= phStability
            /\ phCV <= tdsCV => phStability >= tdsStability
            /\ tdsCV = 0 => tdsStability = 100000
            /\ phCV = 0 => phStability = 100000

\* two Tri-Checks whose stabilities differ above the floor, and one of CV 0
C9_Witness ==
    /\ pc = "single"
    /\ CoefficientOfVariation(tdsReadings) > 0
    /\ CoefficientOfVariation(tdsReadings) < CoefficientOfVariation(phReadings)
    /\ tdsStability > phStability
    /\ phStability > STABILITY_FLOOR

\* C10: identical samples give a Tri-Check stability of 100; when both
\* Tri-Checks of a cycle have identical samples the overall stability is 100
\* and the score is the weighted sum without any penalty factor.
C10_IdenticalSamples ==
    /\ (tdsReadings # <<>> /\ AllEqual(tdsReadings)) => tdsStability = 100000
    /\ (phReadings # <<>> /\ AllEqual(phReadings)) => phStability = 100000
    /\ (pc = "override" /\ AllEqual(tdsReadings) /\ AllEqual(phReadings)) =>
          /\ lastStability = 100000
          /\ StabilityPenalty(lastStability) = 10
          /\ lastJalScore =
                Constrain(ToInt(WeightedSum(lastTDS, lastPH, lastTurbidity,
                                            lastDO, lastStability,
                                            activeProfileIndex)), 0, 100)

\* clean steady water: 150 ppm and pH 7.2 fifteen times each
C10_Witness ==
    /\ pc = "override"
    /\ AllEqual(tdsReadings)
    /\ AllEqual(phReadings)
    /\ lastTDS = 150000
    /\ lastPH = 7200
    /\ lastJalScore >= 80

\* the score a cycle ends with for the given means: calculateJalScore, then
\* the override (lines 1482-1509)
FinalScore(tds, ph, turbidity, doLevel, stability, p) ==
    LET score == calculateJalScore(tds, ph, turbidity, doLevel, stability, p)
    IN  CriticalOverride(score, getVerdict(score),
                         [ph |-> ph, tds |-> tds, turbidity |-> turbidity,
                          stability |-> stability]).score

\* the state holds the score of its own readings: as calculateJalScore
\* returned it, or as the cycle ended with it
ScoreOf(tds, ph, turbidity) ==
    IF pc = "override"
    THEN calculateJalScore(tds, ph, turbidity, lastDO, lastStability,
                           activeProfileIndex)
    ELSE FinalScore(tds, ph, turbidity, lastDO, lastStability,
                    activeProfileIndex)

\* C11: with pH, dissolved oxygen, stability, profile and the other input
\* fixed, raising TDS never raises the score, and raising turbidity never
\* raises the score.
C11_MonotoneInTdsAndTurbidity ==
    pc \in {"override", "done"} =>
        /\ \A t \in TDS_MEANS :
              t >= lastTDS => ScoreOf(t, lastPH, lastTurbidity) <= lastJalScore
        /\ \A u \in TURBIDITY_MEANS :
              u >= lastTurbidity => ScoreOf(lastTDS, lastPH, u) <= lastJalScore

\* a score strictly between those of a lower and of a higher TDS
C11_Witness ==
    /\ pc = "override"
    /\ lastTDS = 400000
    /\ ScoreOf(650000, lastPH, lastTurbidity) < lastJalScore
    /\ ScoreOf(300000, lastPH, lastTurbidity) > lastJalScore
    /\ ScoreOf(lastTDS, lastPH, 8500) < lastJalScore

\* C12 as claimed: of any two pH values, on the same or on opposite sides of
\* the optimum, the one farther from the optimum never gets the higher score.
C12_Claimed ==
    pc \in {"override", "done"} =>
        \A q \in PH_MEANS :
            Abs(q - PH_OPTIMAL) > Abs(lastPH - PH_OPTIMAL) =>
                ScoreOf(lastTDS, q, lastTurbidity) <= lastJalScore

\* C12 as amended: of two pH values on the same side of the optimum, the one
\* farther from the optimum never gets the higher score.
C12_MonotoneOnEachSide ==
    pc \in {"override", "done"} =>
        \A q \in PH_MEANS :
            (q >= lastPH /\ lastPH >= PH_OPTIMAL) \/
            (q <= lastPH /\ lastPH <= PH_OPTIMAL) =>
                ScoreOf(lastTDS, q, lastTurbidity) <= lastJalScore

\* pH 6.4, 0.85 from the optimum, scored below pH 8.5, 1.25 from it
C12_Witness ==
    /\ pc = "override"
    /\ lastPH = 6400
    /\ ScoreOf(lastTDS, 8500, lastTurbidity) > lastJalScore
    /\ ScoreOf(lastTDS, 6000, lastTurbidity) < lastJalScore

\* C13: the five weights sum to 1.0 whatever the active profile, so
\* sub-scores and a stability all equal to 100 give a weighted sum of 100.
C13_WeightsSumToOne ==
    /\ WEIGHT_TDS + WEIGHT_PH + WEIGHT_DO + WEIGHT_TURBIDITY
         + WEIGHT_STABILITY = 100
    /\ (/\ pc = "override"
        /\ TdsScore(lastTDS, activeProfileIndex) = 100000
        /\ PhScore(lastPH) = 100000
        /\ DoScore(lastDO) = 100000
        /\ TurbScore(lastTurbidity, activeProfileIndex) = 100000
        /\ lastStability = 100000) =>
          /\ WeightedSum(lastTDS, lastPH, lastTurbidity, lastDO,
                         lastStability, activeProfileIndex) = 100000
          /\ lastJalScore = 100

\* every sub-score at 100 under a profile other than the default
C13_Witness ==
    /\ pc = "override"
    /\ activeProfileIndex = 2
    /\ lastTDS = 400000
    /\ lastPH = PH_OPTIMAL
    /\ lastTurbidity = 1000
    /\ lastStability = 100000
    /\ lastJalScore = 100

\* C14: TDS 150, turbidity 0.5, pH 7.2, dissolved oxygen 7.5 and stability
\* 95 under a profile with tds_safe 300 and tds_danger 900 end with a score
\* of at least 80, verdict SAFE and no override rule fired.
C14_CleanWaterScenario ==
    (/\ pc = "done"
     /\ lastTDS = 150000
     /\ lastTurbidity = 500
     /\ lastPH = 7200
     /\ lastDO = 7500
     /\ lastStability = 95000
     /\ Profile(activeProfileIndex).tds_safe = 300
     /\ Profile(activeProfileIndex).tds_danger = 900) =>
        /\ lastJalScore >= 80
        /\ lastVerdict = "SAFE"
        /\ criticalAlert = ""

C14_Witness ==
    /\ pc = "done"
    /\ lastTDS = 150000
    /\ lastTurbidity = 500
    /\ lastPH = 7200
    /\ lastDO = 7500
    /\ lastStability = 95000
    /\ activeProfileIndex = 0
    /\ lastJalScore = 99

\* the readings of the dirty-water scenario: TDS 650, turbidity exactly 8.0,
\* pH 7.0, dissolved oxygen 6.0, stability 60
DirtyWaterScenario ==
    /\ pc = "done"
    /\ lastTDS = 650000
    /\ lastTurbidity = 8000
    /\ lastPH = 7000
    /\ lastDO = 6000
    /\ lastStability = 60000

\* C15 as claimed: in the dirty-water scenario the turbidity override
\* triggers and the cycle ends UNSAFE with a score of at most 30.
C15_Claimed ==
    DirtyWaterScenario =>
        /\ criticalAlert = ALERT_TURBIDITY
        /\ lastVerdict = "UNSAFE"
        /\ lastJalScore <= 30

\* C15 as amended: in the dirty-water scenario no override rule triggers
\* (the turbidity rule needs more than 8.0 NTU) and the cycle ends with the
\* weighted score, above 30, and its verdict, CAUTION or ACCEPTABLE
\* depending on the profile, never UNSAFE.
C15_NoOverrideAtEightNTU ==
    DirtyWaterScenario =>
        /\ criticalAlert = ""
        /\ lastJalScore > 30
        /\ lastVerdict \in {"CAUTION", "ACCEPTABLE"}

C15_Witness ==
    /\ DirtyWaterScenario
    /\ activeProfileIndex = 3
    /\ lastVerdict = "CAUTION"

\* C16 as claimed: whenever the most recent location lookup failed, at boot
\* or after a WIFI command, the active profile is the default one, and a
\* result transmitted while that is so names the default profile.
C16_Claimed ==
    [][/\ lookup' = "failed" => activeProfileIndex' = 0
       /\ (lookup' = "failed" /\ bleValue' # bleValue
             /\ bleValue'.kind = "analysis") =>
              bleValue'.profile = Profile(0).name]_vars

\* C17 as claimed: at most one execution of analyzeWater is in progress at
\* any time, so the loop task and the BLE task are never both inside it.
C17_Claimed ==
    ~(task["loop"] \in IN_ANALYSIS /\ task["ble"] \in IN_ANALYSIS)

\* C18 as claimed: the active profile does not change while an analysis
\* cycle is in progress, and the profile named in a cycle's result is the one
\* whose thresholds calculateJalScore read in that cycle.
C18_Claimed ==
    [][/\ (\E t \in TASKS : task[t] \in IN_ANALYSIS) =>
              activeProfileIndex' = activeProfileIndex
       /\ (bleValue' # bleValue /\ bleValue'.kind = "analysis") =>
              bleValue'.profile = Profile(sentBy'.scoredWith).name]_vars

\* C19 as claimed: the result of a cycle in which an override rule or the
\* low-stability rule fired is handed to the transport with a non-empty
\* alert string in it.
C19_Claimed ==
    (bleValue.kind = "analysis" /\ sentBy.alert # "") =>
        ("alert" \in DOMAIN bleValue /\ bleValue.alert # "")

\* C20 as claimed: no line the device writes to its log contains the
\* password of a WIFI:ssid:password command.
C20_Claimed ==
    \A line \in serialLog : ~Contains(line.text, NEW_PASS)

\* a command as the claim calls malformed: not empty, not ANALYZE, not
\* STATUS, and either no WIFI: command or one whose text after the prefix
\* has no ':' or starts with it (an empty SSID)
Malformed(cmd) ==
    /\ Len(cmd) > 0
    /\ cmd # CMD_ANALYZE
    /\ cmd # CMD_STATUS
    /\ \/ Len(cmd) < 5
       \/ \E i \in 1..5 : cmd[i] # WIFI_PREFIX[i]
       \/ \A i \in 6..Len(cmd) : cmd[i] # ":"
       \/ (Len(cmd) >= 6 /\ cmd[6] = ":")

\* C21: a step in which onWrite receives a malformed command changes nothing
\* but the count of commands, the record of the received value and the log:
\* the active and stored credentials, the active profile, the last-result
\* values, the analysis counter, the position of both tasks and everything
\* else a later analysis reads stay as they were.
C21_MalformedRejected ==
    [][(commands' # commands /\ Malformed(received')) =>
          /\ UNCHANGED <<wifiSSID, wifiPassword, savedSSID, savedPassword>>
          /\ UNCHANGED <<activeProfileIndex, analysisCount>>
          /\ UNCHANGED <<lastTemperature, lastTDS, lastPH, lastDO,
                         lastTurbidity, lastStability, lastJalScore,
                         lastVerdict>>
          /\ UNCHANGED <<task, taskAlert, deviceConnected, wifiConnected,
                         detectedPlace, bleValue, presses, lookup,
                         scoredWith, sentBy, oldDeviceConnected,
                         advertising, restartDue>>
          /\ UNCHANGED cycleVars]_vars

\* a WIFI: command with an empty SSID was received and logged, the default
\* credentials are still the active ones and none is stored, and the ANALYZE
\* command that followed has run its analysis
C21_Witness ==
    /\ received = CMD_ANALYZE
    /\ ReceivedLine(WIFI_PREFIX \o <<":">> \o NEW_PASS) \in serialLog
    /\ analysisCount > 0
    /\ wifiSSID = DEFAULT_WIFI_SSID
    /\ savedSSID = <<>>

\* C22 as claimed: once the readings of a cycle are taken, each of the four
\* values handed to calculateJalScore and the override (TDS, pH, turbidity,
\* dissolved oxygen) is the mean of the B x S samples of a Tri-Check of its
\* Sample Source, never a single reading.
C22_Claimed ==
    pc \in {"score", "override", "done"} =>
        \A param \in { <<lastTDS, tdsReadings>>, <<lastPH, phReadings>>,
                        <<lastTurbidity, turbidityReadings>>,
                        <<lastDO, doReadings>> } :
            IF Len(param[2]) = BURSTS * SAMPLES_PER_BURST
            THEN param[1] = MeanOf(param[2])
            ELSE FALSE

\* the value triCheck returned to its caller
TriReturned == IF tri.fn = "tds" THEN lastTDS ELSE lastPH

\* how far a triCheck call has come: samples read, bursts closed, returned
TriProgress ==
    tri.calls + Len(tri.burstMeans) + (IF tri.at = "done" THEN 1 ELSE 0)

PenalisedBy(factor) ==
    Constrain(ToInt(RoundDiv(
        WeightedSum(lastTDS, lastPH, lastTurbidity, lastDO, lastStability,
                    activeProfileIndex) * factor, 10)), 0, 100)

\* C24: the score calculateJalScore returns is the whole weighted sum, the
\* stability term included, times 0.8 when the overall stability is below
\* 50, times 0.9 when it is at least 50 and below 70, and unscaled when it
\* is 70 or more; every stability falls in exactly one of the three cases.
C24_GraduatedPenalty ==
    pc = "override" =>
        /\ lastStability < 50000 => lastJalScore = PenalisedBy(8)
        /\ (lastStability >= 50000 /\ lastStability < 70000) =>
               lastJalScore = PenalisedBy(9)
        /\ lastStability >= 70000 => lastJalScore = PenalisedBy(10)
        /\ Cardinality({c \in {"below 50", "50 to 70", "70 and above"} :
               \/ c = "below 50" /\ lastStability < 50000
               \/ c = "50 to 70" /\ lastStability >= 50000
                                 /\ lastStability < 70000
               \/ c = "70 and above" /\ lastStability >= 70000}) = 1

\* clean water scored at a stability of exactly 50: the 0.9 case, whose
\* result differs from what 0.8 and what no penalty would give
C24_Witness ==
    /\ pc = "override"
    /\ lastStability = 50000
    /\ lastJalScore = PenalisedBy(9)
    /\ PenalisedBy(8) < PenalisedBy(9)
    /\ PenalisedBy(9) < PenalisedBy(10)

\* the distance from the detected location to profile i
DistanceTo(i) ==
    haversineDistance(detectedLat, detectedLon, Profile(i).lat, Profile(i).lon)

\* C25: after matchClosestProfile the active profile is within the registry,
\* no registered profile is nearer to the detected location than it, and
\* every profile registered before it is strictly farther away.
C25_ClosestFirstProfile ==
    pc = "matched" =>
        /\ activeProfileIndex \in 0..(PROFILE_COUNT - 1)
        /\ \A i \in 0..(PROFILE_COUNT - 1) :
               DistanceTo(activeProfileIndex) <= DistanceTo(i)
        /\ \A i \in 0..(activeProfileIndex - 1) :
               DistanceTo(i) > DistanceTo(activeProfileIndex)

\* a location matched to a profile that is not the default one while a
\* profile registered after it is exactly as near
C25_Witness ==
    /\ pc = "matched"
    /\ activeProfileIndex > 0
    /\ \E i \in (activeProfileIndex + 1)..(PROFILE_COUNT - 1) :
           DistanceTo(i) = DistanceTo(activeProfileIndex)

C27_NonPositiveMeanFullStability ==
    /\ (tdsReadings # <<>> /\ lastTDS <= 0) => tdsStability = 100000
    /\ (phReadings # <<>> /\ lastPH <= 0) => phStability = 100000

\* a TDS Tri-Check of samples that vary around a negative mean and a pH
\* Tri-Check of varying samples with a negative mean, both reported stable
C27_Witness ==
    /\ pc = "single"
    /\ lastTDS < 0
    /\ StdDevOf(tdsReadings) > 0
    /\ tdsStability = 100000
    /\ lastPH < 0
    /\ StdDevOf(phReadings) > 0
    /\ phStability = 100000

\* C28: every Tri-Check stability of a cycle is at least 50, so the overall
\* stability lies in [50,100]: never below the 50 under which the score is
\* scaled by 0.8, never below the 40 of the low-stability rule, and the
\* cycle never ends with that rule's cleaning alert, however noisy the
\* sources are.
C28_FloorKeepsLowStabilityRuleDead ==
    /\ tdsReadings # <<>> => tdsStability >= STABILITY_FLOOR
    /\ phReadings # <<>> => phStability >= STABILITY_FLOOR
    /\ pc \in {"score", "override", "done"} =>
           /\ lastStability >= 50000
           /\ lastStability <= 100000
           /\ ~(lastStability < STABILITY_ALERT_BELOW)
    /\ pc = "done" =>
           /\ criticalAlert # ALERT_STABILITY
           /\ serialAlert # ALERT_STABILITY

\* a cycle has ended whose TDS samples were so noisy that their stability
\* sits on the floor, and whose pH samples were not steady either
C28_Witness ==
    /\ pc = "done"
    /\ CoefficientOfVariation(tdsReadings) > 20000
    /\ tdsStability = STABILITY_FLOOR
    /\ phStability < 100000
    /\ lastStability < 70000

\* C29, as claimed: after every disconnect of a BLE client the main loop
\* eventually restarts advertising, also when the connect and the disconnect
\* both fall between two of the loop's looks at deviceConnected.
C29_Claimed == restartDue ~> ~restartDue

\* C30, as claimed: whatever the notifications cut the stream into, the data
\* callback has received exactly the valid JSON lines among the bytes that
\* arrived, once each and in their order, and when all bytes have arrived
\* the buffer holds what follows the last line feed.
C30_Claimed ==
    pc = "client" =>
        /\ onDataReceived = MessagesIn(Arrived)
        /\ incoming = <<>> => buffer = FragmentOf(stream)

\* what does hold of _handleData: streams of single-byte characters are
\* delivered as C30 says
SingleByteStreamsDelivered ==
    (pc = "client" /\ \A i \in 1..Len(stream) : stream[i] < 128) =>
        /\ onDataReceived = MessagesIn(Arrived)
        /\ incoming = <<>> => buffer = FragmentOf(stream)

====
